---- MODULE Spec2Model ----
(***************************************************************************)
(* Model of the rule-based core of the health monitoring application:      *)
(* calculate_health_score (src/src/core/health_data.py), create_risk_labels*)
(* and generate_recommendations (src/src/core/ml_models.py), and of the    *)
(* module-level state of app.py they run beside (user_data_store,          *)
(* model_trained, the shared preprocessor and models, the simulator's      *)
(* random generator).                                                      *)
(*                                                                         *)
(* Temperatures are fixed-point numbers in tenths of a degree Celsius      *)
(* (36.1 is 361): every threshold of the code is a multiple of 0.1 and the *)
(* simulator rounds to one decimal.                                        *)
(***************************************************************************)
EXTENDS Integers, Sequences, FiniteSets, TLC

VARIABLES
    row,              \* the record a core function is applied to
    health_score,     \* outcome of calculate_health_score(row)
    frame,            \* the data frame (sequence of rows) create_risk_labels is applied to
    risk_labels,      \* outcome of create_risk_labels(frame)
    recommendations,  \* outcome of generate_recommendations(row, ...)
    anomaly_status,   \* the anomaly_status argument of generate_recommendations
    risk_level,       \* the risk_level argument of generate_recommendations
    user_data_store,  \* app.py: user id -> stored frame (a sequence of rows)
    model_trained,    \* app.py: the module-level flag
    preprocessor,     \* app.py: the shared HealthDataPreprocessor (is_fitted)
    anomaly_detector, \* app.py: the shared HealthAnomalyDetector (is_fitted)
    risk_classifier,  \* app.py: the shared HealthRiskClassifier (is_fitted)
    rng_state,        \* the state of numpy's global generator, seeded by the simulator
    first_call,       \* the first call of a core function
    last_call,        \* the latest call of a core function
    gemini_advisor,   \* app.py: the Gemini advisor built at import, if any
    response,         \* the response to the latest request
    simulated,        \* the users a simulate request succeeded for
    latest_record,    \* app.py: the latest record of the request's analysis
    gemini_insights,  \* app.py: outcome of the request's call of the advisor
    threads,          \* the requests being served at once: where each one is
    initialisation    \* outcome of the request's call of initialize_models

coreVars == <<row, frame, health_score, risk_labels, recommendations,
              anomaly_status, risk_level>>

appVars == <<user_data_store, model_trained, preprocessor, anomaly_detector,
             risk_classifier, rng_state>>

callVars == <<first_call, last_call>>

requestVars == <<latest_record, gemini_insights>>

apiVars == <<gemini_advisor, response, simulated, requestVars, threads,
             initialisation>>

vars == <<coreVars, appVars, callVars, apiVars>>

\* The outcome of a call: not called yet, or the value it returned
NotCalled == [kind |-> "none"]
Returned(v) == [kind |-> "return", value |-> v]
Raised(e) == [kind |-> "raise", error |-> e]

----------------------------------------------------------------------------
(* Bounds of the input domains *)

Margin == 1
MaxHeartRate == 250
MaxBloodOxygen == 100
MinTemperature == 300
MaxTemperature == 420

Window(t) == (t - Margin)..(t + Margin)

HeartRates ==
    Window(50) \cup Window(60) \cup Window(100) \cup Window(120)
        \cup {0, MaxHeartRate}

BloodOxygens == Window(90) \cup Window(95) \cup {0, MaxBloodOxygen}

Temperatures ==
    Window(355) \cup Window(360) \cup Window(361) \cup Window(372)
        \cup Window(375) \cup Window(380) \cup {MinTemperature, MaxTemperature}

ActivityLevels == {"low", "moderate", "high"}

AnomalyStatuses == {"Normal", "Anomaly"}

Rows ==
    [heart_rate : HeartRates, blood_oxygen : BloodOxygens,
     temperature : Temperatures, activity_level : ActivityLevels]

----------------------------------------------------------------------------
(* Config: the threshold constants of src/src/utils/config.py *)

HEART_RATE_NORMAL == <<60, 100>>
HEART_RATE_WARNING == <<50, 120>>
BLOOD_OXYGEN_NORMAL == <<95, 100>>
BLOOD_OXYGEN_WARNING == <<90, 95>>
TEMPERATURE_NORMAL == <<361, 372>>
TEMPERATURE_WARNING == <<355, 380>>

----------------------------------------------------------------------------
(* Python builtins *)

max(a, b) == IF a >= b THEN a ELSE b
min(a, b) == IF a <= b THEN a ELSE b

\* dict.get(key, default)
get(d, key, default) == IF key \in DOMAIN d THEN d[key] ELSE default

\* float('nan'), the value pandas gives a cell with no data, and None; both
\* lie outside every domain of readings
NaN == 0 - 1000001
None == 0 - 1000002

\* Comparison of two numbers: every ordering comparison with NaN is False
lt(a, b) == a # NaN /\ b # NaN /\ a < b
le(a, b) == a # NaN /\ b # NaN /\ a <= b
gt(a, b) == a # NaN /\ b # NaN /\ a > b
ge(a, b) == a # NaN /\ b # NaN /\ a >= b

----------------------------------------------------------------------------
(* calculate_health_score, src/src/core/health_data.py *)

heart_rate_scoring_open(score, r) ==
    IF lt(60, r.heart_rate) /\ le(r.heart_rate, 100) THEN score + 0
    ELSE IF (le(50, r.heart_rate) /\ lt(r.heart_rate, 60))
            \/ (lt(100, r.heart_rate) /\ le(r.heart_rate, 120)) THEN score - 10
    ELSE score - 25

heart_rate_scoring_strict50(score, r) ==
    IF le(60, r.heart_rate) /\ le(r.heart_rate, 100) THEN score + 0
    ELSE IF (lt(50, r.heart_rate) /\ lt(r.heart_rate, 60))
            \/ (lt(100, r.heart_rate) /\ lt(r.heart_rate, 120)) THEN score - 10
    ELSE score - 25

\* a heart rate without data is skipped, as a normal one is
heart_rate_scoring_skipna(score, r) ==
    IF r.heart_rate = NaN \/ (le(60, r.heart_rate) /\ le(r.heart_rate, 100))
    THEN score + 0
    ELSE IF (le(50, r.heart_rate) /\ lt(r.heart_rate, 60))
            \/ (lt(100, r.heart_rate) /\ le(r.heart_rate, 120)) THEN score - 10
    ELSE score - 25

heart_rate_scoring(score, r) ==
    IF le(60, r.heart_rate) /\ le(r.heart_rate, 100) THEN score + 0
    ELSE IF (le(50, r.heart_rate) /\ lt(r.heart_rate, 60))
            \/ (lt(100, r.heart_rate) /\ le(r.heart_rate, 120)) THEN score - 10
    ELSE score - 25

blood_oxygen_scoring_swapped(score, r) ==
    IF ge(r.blood_oxygen, 95) THEN score + 0
    ELSE IF le(90, r.blood_oxygen) /\ lt(r.blood_oxygen, 95) THEN score - 30
    ELSE score - 15

blood_oxygen_scoring(score, r) ==
    IF ge(r.blood_oxygen, 95) THEN score + 0
    ELSE IF le(90, r.blood_oxygen) /\ lt(r.blood_oxygen, 95) THEN score - 15
    ELSE score - 30

\* a temperature outside the normal band costs twenty points, whatever
\* the band it falls in
temperature_scoring_flat(score, r) ==
    IF le(361, r.temperature) /\ le(r.temperature, 372) THEN score + 0
    ELSE score - 20

temperature_scoring(score, r) ==
    IF le(361, r.temperature) /\ le(r.temperature, 372) THEN score + 0
    ELSE IF (le(355, r.temperature) /\ lt(r.temperature, 361))
            \/ (lt(372, r.temperature) /\ le(r.temperature, 380)) THEN score - 10
    ELSE score - 20

\* score = 0 as in create_risk_labels, and the score returned as it is
calculate_health_score_unclamped(r) ==
    temperature_scoring(blood_oxygen_scoring(heart_rate_scoring(0, r), r), r)

\* a default score of 100 until the models are trained
calculate_health_score_untrained(r) ==
    LET score ==
            temperature_scoring(
                blood_oxygen_scoring(heart_rate_scoring(100, r), r), r)
    IN  IF model_trained THEN max(0, min(100, score)) ELSE 100

calculate_health_score(r) ==
    LET score ==
            temperature_scoring(
                blood_oxygen_scoring(heart_rate_scoring(100, r), r), r)
    IN  max(0, min(100, score))

----------------------------------------------------------------------------
(* HealthRiskClassifier.create_risk_labels, src/src/core/ml_models.py *)

heart_rate_risk(risk_score, r) ==
    IF lt(r.heart_rate, 50) \/ gt(r.heart_rate, 120) THEN risk_score + 2
    ELSE IF lt(r.heart_rate, 60) \/ gt(r.heart_rate, 100) THEN risk_score + 1
    ELSE risk_score

blood_oxygen_risk(risk_score, r) ==
    IF lt(r.blood_oxygen, 90) THEN risk_score + 2
    ELSE IF lt(r.blood_oxygen, 95) THEN risk_score + 1
    ELSE risk_score

temperature_risk_372(risk_score, r) ==
    IF lt(r.temperature, 355) \/ gt(r.temperature, 380) THEN risk_score + 2
    ELSE IF lt(r.temperature, 361) \/ gt(r.temperature, 372) THEN risk_score + 1
    ELSE risk_score

temperature_risk(risk_score, r) ==
    IF lt(r.temperature, 355) \/ gt(r.temperature, 380) THEN risk_score + 2
    ELSE IF lt(r.temperature, 361) \/ gt(r.temperature, 375) THEN risk_score + 1
    ELSE risk_score

risk_score_of(r) ==
    temperature_risk(blood_oxygen_risk(heart_rate_risk(0, r), r), r)

classify_risk_level_strict(risk_score) ==
    IF risk_score > 4 THEN 2
    ELSE IF risk_score > 2 THEN 1
    ELSE 0

classify_risk_level_exact(risk_score) ==
    IF risk_score = 4 THEN 2
    ELSE IF risk_score >= 2 THEN 1
    ELSE 0

classify_risk_level(risk_score) ==
    IF risk_score >= 4 THEN 2
    ELSE IF risk_score >= 2 THEN 1
    ELSE 0

\* frame is a sequence of rows; the result is the array of labels, one per row
create_risk_labels(df) ==
    [i \in DOMAIN df |-> classify_risk_level(risk_score_of(df[i]))]

risk_levels == <<"Low Risk", "Medium Risk", "High Risk">>

RiskLevels == {risk_levels[i] : i \in DOMAIN risk_levels}

----------------------------------------------------------------------------
(* HealthRecommendationEngine.generate_recommendations,                    *)
(* src/src/core/ml_models.py.  A message is its leading icon and its text. *)

Msg(icon, text) == [icon |-> icon, text |-> text]

MSG_HR_LOW ==
    Msg("warning", "Your heart rate is low. Consider consulting a healthcare provider if this persists.")
MSG_HR_LOW_TIP == Msg("tip", "Avoid sudden strenuous activities.")
MSG_HR_HIGH ==
    Msg("warning", "Your heart rate is elevated. Try relaxation techniques like deep breathing.")
MSG_HR_HIGH_TIP ==
    Msg("tip", "Reduce caffeine intake and ensure adequate hydration.")
MSG_SPO2_LOW ==
    Msg("warning", "Blood oxygen is below normal. Ensure good ventilation and avoid strenuous activities.")
MSG_SPO2_CRITICAL ==
    Msg("urgent", "URGENT: Seek immediate medical attention - oxygen levels critically low!")
MSG_TEMP_HIGH ==
    Msg("warning", "Elevated temperature detected. Stay hydrated and monitor closely.")
MSG_FEVER ==
    Msg("urgent", "Fever detected. Consider taking fever-reducing medication and consult a doctor.")
MSG_TEMP_LOW ==
    Msg("warning", "Body temperature is low. Warm up and monitor for hypothermia symptoms.")
MSG_ACTIVITY_LOW ==
    Msg("activity", "Try to increase physical activity gradually - aim for 30 minutes daily.")
MSG_ACTIVITY_HIGH ==
    Msg("warning", "Consider moderating intense activity given your current health metrics.")
MSG_HIGH_RISK ==
    Msg("urgent", "HIGH RISK ALERT: Schedule an immediate consultation with your healthcare provider.")
MSG_HIGH_RISK_EMERGENCY ==
    Msg("phone", "Consider emergency services if symptoms worsen.")
MSG_MEDIUM_RISK ==
    Msg("warning", "Schedule a check-up with your healthcare provider within 24-48 hours.")
MSG_MEDIUM_RISK_MONITOR ==
    Msg("chart", "Continue monitoring your vitals closely.")
MSG_LOW_RISK ==
    Msg("ok", "Your vitals look good! Maintain healthy lifestyle habits.")
MSG_LOW_RISK_REST == Msg("water", "Stay hydrated and get adequate rest.")
MSG_ANOMALY ==
    Msg("warning", "Unusual pattern detected in your health data. Monitor closely and consult a doctor if concerned.")

heart_rate_recommendations_le(recs, health_data) ==
    LET hr == get(health_data, "heart_rate", 0)
    IN  IF le(hr, 60) THEN Append(Append(recs, MSG_HR_LOW), MSG_HR_LOW_TIP)
        ELSE IF gt(hr, 100)
             THEN Append(Append(recs, MSG_HR_HIGH), MSG_HR_HIGH_TIP)
        ELSE recs

heart_rate_recommendations(recs, health_data) ==
    LET hr == get(health_data, "heart_rate", 0)
    IN  IF lt(hr, 60) THEN Append(Append(recs, MSG_HR_LOW), MSG_HR_LOW_TIP)
        ELSE IF gt(hr, 100)
             THEN Append(Append(recs, MSG_HR_HIGH), MSG_HR_HIGH_TIP)
        ELSE recs

\* the critical rule as an elif of the below-normal rule
blood_oxygen_recommendations_elif(recs, health_data) ==
    LET spo2 == get(health_data, "blood_oxygen", 100)
    IN  IF lt(spo2, 95) THEN Append(recs, MSG_SPO2_LOW)
        ELSE IF lt(spo2, 90) THEN Append(recs, MSG_SPO2_CRITICAL)
        ELSE recs

blood_oxygen_recommendations(recs, health_data) ==
    LET spo2 == get(health_data, "blood_oxygen", 100)
    IN  IF lt(spo2, 95)
        THEN IF lt(spo2, 90)
             THEN Append(Append(recs, MSG_SPO2_LOW), MSG_SPO2_CRITICAL)
             ELSE Append(recs, MSG_SPO2_LOW)
        ELSE recs

temperature_recommendations(recs, health_data) ==
    LET temp == get(health_data, "temperature", 365)
    IN  IF gt(temp, 375)
        THEN IF gt(temp, 380)
             THEN Append(Append(recs, MSG_TEMP_HIGH), MSG_FEVER)
             ELSE Append(recs, MSG_TEMP_HIGH)
        ELSE IF lt(temp, 360) THEN Append(recs, MSG_TEMP_LOW)
        ELSE recs

activity_recommendations(recs, health_data, risk) ==
    LET activity == get(health_data, "activity_level", "moderate")
    IN  IF activity = "low" THEN Append(recs, MSG_ACTIVITY_LOW)
        ELSE IF activity = "high" /\ risk \in {"Medium Risk", "High Risk"}
             THEN Append(recs, MSG_ACTIVITY_HIGH)
        ELSE recs

\* a Low Risk prediction adds no message
risk_level_recommendations_silent(recs, risk) ==
    IF risk = "High Risk"
    THEN Append(Append(recs, MSG_HIGH_RISK), MSG_HIGH_RISK_EMERGENCY)
    ELSE IF risk = "Medium Risk"
         THEN Append(Append(recs, MSG_MEDIUM_RISK), MSG_MEDIUM_RISK_MONITOR)
    ELSE recs

risk_level_recommendations(recs, risk) ==
    IF risk = "High Risk"
    THEN Append(Append(recs, MSG_HIGH_RISK), MSG_HIGH_RISK_EMERGENCY)
    ELSE IF risk = "Medium Risk"
         THEN Append(Append(recs, MSG_MEDIUM_RISK), MSG_MEDIUM_RISK_MONITOR)
    ELSE Append(Append(recs, MSG_LOW_RISK), MSG_LOW_RISK_REST)

anomaly_recommendations(recs, anomaly) ==
    IF anomaly = "Anomaly" THEN Append(recs, MSG_ANOMALY) ELSE recs

\* returns as soon as the critical oxygen message has been appended
generate_recommendations_early(health_data, anomaly, risk) ==
    LET r1 == heart_rate_recommendations(<<>>, health_data)
        r2 == blood_oxygen_recommendations(r1, health_data)
        r3 == temperature_recommendations(r2, health_data)
        r4 == activity_recommendations(r3, health_data, risk)
        r5 == risk_level_recommendations(r4, risk)
    IN  IF lt(get(health_data, "blood_oxygen", 100), 90) THEN r2
        ELSE anomaly_recommendations(r5, anomaly)

generate_recommendations(health_data, anomaly, risk) ==
    LET r1 == heart_rate_recommendations(<<>>, health_data)
        r2 == blood_oxygen_recommendations(r1, health_data)
        r3 == temperature_recommendations(r2, health_data)
        r4 == activity_recommendations(r3, health_data, risk)
        r5 == risk_level_recommendations(r4, risk)
    IN  anomaly_recommendations(r5, anomaly)

----------------------------------------------------------------------------
(* Calls of the core functions on arbitrary records: what Python raises    *)
(* before a result is computed.  row['x'] raises KeyError when the key or  *)
(* column is absent; an ordering comparison of None with a number raises   *)
(* TypeError; NaN is compared without error.                               *)

VitalSigns == <<"heart_rate", "blood_oxygen", "temperature">>

\* row[key] followed by a comparison with a number
subscript(r, key) ==
    IF key \notin DOMAIN r THEN "KeyError"
    ELSE IF r[key] = None THEN "TypeError"
    ELSE "ok"

\* health_data.get(key, default) followed by a comparison with a number
get_compare(r, key) ==
    IF key \in DOMAIN r /\ r[key] = None THEN "TypeError" ELSE "ok"

\* the first error met when the channels are read in source order
first_error(r, read) ==
    LET err(key) == IF read = "subscript" THEN subscript(r, key)
                    ELSE get_compare(r, key)
    IN  IF err(VitalSigns[1]) # "ok" THEN err(VitalSigns[1])
        ELSE IF err(VitalSigns[2]) # "ok" THEN err(VitalSigns[2])
        ELSE err(VitalSigns[3])

call_calculate_health_score(r) ==
    IF first_error(r, "subscript") # "ok" THEN Raised(first_error(r, "subscript"))
    ELSE Returned(calculate_health_score(r))

\* the rows are visited in order; the first row that cannot be read raises
call_create_risk_labels(df) ==
    IF \E i \in DOMAIN df : first_error(df[i], "subscript") # "ok"
    THEN LET i == CHOOSE j \in DOMAIN df :
                      /\ first_error(df[j], "subscript") # "ok"
                      /\ \A k \in 1..(j - 1) : first_error(df[k], "subscript") = "ok"
         IN  Raised(first_error(df[i], "subscript"))
    ELSE Returned(create_risk_labels(df))

call_generate_recommendations(health_data, anomaly, risk) ==
    IF first_error(health_data, "get") # "ok"
    THEN Raised(first_error(health_data, "get"))
    ELSE Returned(generate_recommendations(health_data, anomaly, risk))

----------------------------------------------------------------------------
(* The core functions applied to one record *)

\* gemini_advisor = None: the import of the advisor or its construction failed
NoAdvisor == [available |-> FALSE, methods |-> {}]

\* The requests the server works on at once, and a request not yet received
Threads == {"t1", "t2", "t3"}
Idle == [pc |-> "idle"]

\* The module-level state of app.py after import
AppInit ==
    /\ user_data_store = <<>>
    /\ model_trained = FALSE
    /\ preprocessor = [is_fitted |-> FALSE]
    /\ anomaly_detector = [is_fitted |-> FALSE]
    /\ risk_classifier = [is_fitted |-> FALSE]
    /\ rng_state = 0
    /\ first_call = NotCalled
    /\ last_call = NotCalled
    /\ gemini_advisor = NoAdvisor
    /\ response = NotCalled
    /\ simulated = {}
    /\ latest_record = NotCalled
    /\ gemini_insights = NotCalled
    /\ threads = [t \in Threads |-> Idle]
    /\ initialisation = NotCalled

Init ==
    /\ row \in Rows
    /\ frame = <<row>>
    /\ health_score = NotCalled
    /\ risk_labels = NotCalled
    /\ recommendations = NotCalled
    /\ anomaly_status = "Normal"
    /\ risk_level = "Low Risk"
    /\ AppInit

CalculateHealthScore ==
    /\ health_score.kind = "none"
    /\ health_score' = call_calculate_health_score(row)
    /\ UNCHANGED <<row, frame, risk_labels, recommendations, anomaly_status,
                   risk_level, appVars, callVars, apiVars>>

CreateRiskLabels ==
    /\ risk_labels.kind = "none"
    /\ risk_labels' = call_create_risk_labels(frame)
    /\ UNCHANGED <<row, frame, health_score, recommendations, anomaly_status,
                   risk_level, appVars, callVars, apiVars>>

\* health_data.setdefault(key, default) in place of health_data.get: the
\* defaults are written into the caller's record
GenerateRecommendations_setdefault ==
    /\ recommendations.kind = "none"
    /\ \E a \in AnomalyStatuses, rl \in RiskLevels :
          /\ anomaly_status' = a
          /\ risk_level' = rl
          /\ recommendations' = call_generate_recommendations(row, a, rl)
    /\ row' = [k \in DOMAIN row \cup {"heart_rate", "blood_oxygen", "temperature"} |->
                  IF k \in DOMAIN row THEN row[k]
                  ELSE IF k = "heart_rate" THEN 0
                  ELSE IF k = "blood_oxygen" THEN 100
                  ELSE 365]
    /\ UNCHANGED <<frame, health_score, risk_labels, appVars, callVars,
                   apiVars>>

GenerateRecommendations ==
    /\ recommendations.kind = "none"
    /\ \E a \in AnomalyStatuses, rl \in RiskLevels :
          /\ anomaly_status' = a
          /\ risk_level' = rl
          /\ recommendations' = call_generate_recommendations(row, a, rl)
    /\ UNCHANGED <<row, frame, health_score, risk_labels, appVars, callVars,
                   apiVars>>

Next == CalculateHealthScore \/ CreateRiskLabels \/ GenerateRecommendations

Spec == Init /\ [][Next]_vars

----------------------------------------------------------------------------
(* create_risk_labels applied to a frame of two records that differ in one *)
(* of heart_rate, blood_oxygen, temperature                                *)

Channels == {"heart_rate", "blood_oxygen", "temperature"}

ChannelValues(ch) ==
    IF ch = "heart_rate" THEN HeartRates
    ELSE IF ch = "blood_oxygen" THEN BloodOxygens
    ELSE Temperatures

FrameInit ==
    /\ row \in {r \in Rows : r.activity_level = "moderate"}
    /\ \E ch \in Channels :
          \E v \in ChannelValues(ch) \ {row[ch]} :
              frame = <<row, [row EXCEPT ![ch] = v]>>
    /\ health_score = NotCalled
    /\ risk_labels = NotCalled
    /\ recommendations = NotCalled
    /\ anomaly_status = "Normal"
    /\ risk_level = "Low Risk"
    /\ AppInit

FrameNext == CreateRiskLabels

FrameSpec == FrameInit /\ [][FrameNext]_vars

----------------------------------------------------------------------------
(* The core functions called between the operations on the module-level    *)
(* state of app.py                                                         *)

Users == {"user_001", "user_002"}
MaxRecords == 1
RngPeriod == 3

\* Readings HealthDataSimulator.generate_user_data draws: a normal one and
\* an anomalous one
NormalReading ==
    [heart_rate |-> 75, blood_oxygen |-> 98, temperature |-> 365,
     activity_level |-> "moderate"]

AnomalousReading ==
    [heart_rate |-> 45, blood_oxygen |-> 88, temperature |-> 385,
     activity_level |-> "high"]

SimulatedRows == {NormalReading, AnomalousReading}

\* Anomaly status and risk level the models predict for a record
Predictions == {<<"Normal", "Low Risk">>, <<"Anomaly", "High Risk">>}

\* numpy's global generator after n more records were drawn
advance(rng, n) == (rng + n) % RngPeriod

\* np.random.random() < 0.05 and the draws that follow it: the reading is a
\* function of the generator's state
simulated_row(rng) == IF rng = 0 THEN AnomalousReading ELSE NormalReading

\* The frame generate_user_data(user_id, num_records) returns when the
\* generator is in state rng
generate_user_data(rng, num_records) ==
    LET records == [i \in 1..num_records |-> simulated_row(advance(rng, i - 1))]
    IN  SubSeq(records, 1, num_records)

AppSpecInit ==
    /\ row = NormalReading
    /\ frame = <<row>>
    /\ health_score = NotCalled
    /\ risk_labels = NotCalled
    /\ recommendations = NotCalled
    /\ anomaly_status = "Normal"
    /\ risk_level = "Low Risk"
    /\ AppInit

\* request.args of a request without query parameters
NoArgs == [limit |-> None, start_date |-> None, end_date |-> None]

\* A response: the endpoint and user it answers, whether the request carried
\* a 'data' field, its query parameters, the HTTP status, the body
Response(op, user_id, status, body) ==
    [kind |-> "response", op |-> op, user_id |-> user_id, has_data |-> FALSE,
     args |-> NoArgs, status |-> status, body |-> body]

\* jsonify({'success': False, 'error': ...})
Failure(error) == [success |-> FALSE, error |-> error]

\* the process has exited: no request is served any more
Exited == [kind |-> "exit"]

\* user_data_store = {user_id: df}: the other users' frames are dropped
store_alone(user_id, df) ==
    [u \in {user_id} |-> df]

store(user_id, df) ==
    [u \in DOMAIN user_data_store \cup {user_id} |->
        IF u = user_id THEN df ELSE user_data_store[u]]

\* a request that analyses no record and does not call the advisor
no_analysis ==
    /\ latest_record' = NotCalled
    /\ gemini_insights' = NotCalled

\* df.head(n) and df.tail(n) for n >= 0
head(df, n) == SubSeq(df, 1, min(n, Len(df)))

\* the first n records instead of the last
tail_first(df, n) ==
    SubSeq(df, 1, min(n, Len(df)))

tail(df, n) ==
    SubSeq(df, max(1, Len(df) - n + 1), Len(df))

\* The timestamp of the record at position i of a frame, in steps of five
\* minutes from the start of the frame
timestamp(i) == i

\* df[df['timestamp'] >= start_date] and df[df['timestamp'] <= end_date],
\* each applied when the parameter is given; the timestamps of a frame
\* grow with the position
between(df, start_date, end_date) ==
    LET kept(i) == /\ start_date # None => timestamp(i) >= start_date
                   /\ end_date # None => timestamp(i) <= end_date
        index == SelectSeq([i \in DOMAIN df |-> i], kept)
    IN  [n \in DOMAIN index |-> df[index[n]]]

\* POST /api/health/simulate; num_records = None makes range() raise
simulate_health_data(user_id, num_records) ==
    /\ response # Exited
    /\ IF num_records = None
       THEN /\ response' = Response("simulate", user_id, 400, Failure("TypeError"))
            /\ UNCHANGED <<user_data_store, rng_state, simulated>>
       ELSE LET df == generate_user_data(rng_state, num_records)
            IN  /\ user_data_store' = store(user_id, df)
                /\ rng_state' = advance(rng_state, num_records)
                /\ response' =
                       Response("simulate", user_id, 200,
                                [success |-> TRUE, user_id |-> user_id,
                                 num_records |-> Len(df), data |-> head(df, 10)])
                /\ simulated' = simulated \cup {user_id}
    /\ no_analysis
    /\ initialisation' = NotCalled
    /\ UNCHANGED <<coreVars, model_trained, preprocessor, anomaly_detector,
                   risk_classifier, callVars, gemini_advisor, threads>>

\* model_trained is set as soon as one artefact has loaded
initialize_models_hasty(loaded, fitted, saved) ==
    /\ anomaly_detector' =
          [is_fitted |-> anomaly_detector.is_fitted \/ loaded >= 1
                            \/ (loaded < 3 /\ fitted >= 3)]
    /\ risk_classifier' =
          [is_fitted |-> risk_classifier.is_fitted \/ loaded >= 2
                            \/ (loaded < 3 /\ fitted >= 4)]
    /\ preprocessor' =
          [is_fitted |-> preprocessor.is_fitted \/ loaded >= 3
                            \/ (loaded < 3 /\ fitted >= 2)]
    /\ model_trained' = (loaded >= 1 \/ fitted = 4)

\* initialize_models(): loaded artefacts are loaded before a load raises
\* (3: none raises); fitted training steps of generate, fit_transform,
\* detector fit, classifier fit complete before one raises (4: none raises);
\* saved tells whether the trained models could be written to disk
initialize_models(loaded, fitted, saved) ==
    /\ anomaly_detector' =
          [is_fitted |-> anomaly_detector.is_fitted \/ loaded >= 1
                            \/ (loaded < 3 /\ fitted >= 3)]
    /\ risk_classifier' =
          [is_fitted |-> risk_classifier.is_fitted \/ loaded >= 2
                            \/ (loaded < 3 /\ fitted >= 4)]
    /\ preprocessor' =
          [is_fitted |-> preprocessor.is_fitted \/ loaded >= 3
                            \/ (loaded < 3 /\ fitted >= 2)]
    /\ model_trained' = (loaded = 3 \/ fitted = 4)

\* records generate_multi_user_data(num_users=10, records_per_user=200) draws
training_records(loaded, fitted) ==
    IF loaded < 3 /\ fitted >= 1 THEN 10 * 200 ELSE 0

InitializeModels ==
    /\ ~model_trained
    /\ \E loaded \in 0..3, fitted \in 0..4 :
          /\ initialize_models(loaded, fitted, fitted = 4)
          /\ rng_state' = advance(rng_state, training_records(loaded, fitted))
    /\ UNCHANGED <<coreVars, user_data_store, callVars, apiVars>>

\* A call of a core function, with its arguments and the value it returned
Call(op, health_data, anomaly, risk, value) ==
    [kind |-> "return", op |-> op, health_data |-> health_data,
     anomaly_status |-> anomaly, risk_level |-> risk, value |-> value,
     model_trained |-> model_trained]

Record(call) ==
    /\ last_call' = call
    /\ first_call' = IF first_call.kind = "none" THEN call ELSE first_call
    /\ UNCHANGED <<coreVars, appVars, apiVars>>

CallCalculateHealthScore ==
    \E r \in SimulatedRows :
        Record(Call("calculate_health_score", r, "", "",
                    calculate_health_score(r)))

CallCreateRiskLabels ==
    \E r \in SimulatedRows :
        Record(Call("create_risk_labels", r, "", "",
                    create_risk_labels(<<r>>)))

CallGenerateRecommendations ==
    \E r \in SimulatedRows, p \in Predictions :
        Record(Call("generate_recommendations", r, p[1], p[2],
                    generate_recommendations(r, p[1], p[2])))

SimulateHealthData ==
    \E user_id \in Users, num_records \in (0..MaxRecords) \cup {None} :
        simulate_health_data(user_id, num_records)

AppNext ==
    \/ SimulateHealthData
    \/ InitializeModels
    \/ CallCalculateHealthScore
    \/ CallCreateRiskLabels
    \/ CallGenerateRecommendations

AppSpec == AppSpecInit /\ [][AppNext]_vars


----------------------------------------------------------------------------
(* The core functions applied to records a caller can hand them: a reading *)
(* of the simulator in which one field is absent, None, NaN or a number    *)
(* outside its physical domain                                             *)

\* a heart rate below zero, an oxygen saturation outside 0..100 %, a body
\* temperature no living person has
OutOfDomain(ch) ==
    CASE ch = "heart_rate" -> {0 - 1, 1000}
      [] ch = "blood_oxygen" -> {0 - 5, 150}
      [] ch = "temperature" -> {0 - 100, 1000}

Without(r, key) == [k \in DOMAIN r \ {key} |-> r[k]]

InputRows ==
    SimulatedRows
        \cup {Without(r, key) :
                  r \in SimulatedRows, key \in Channels \cup {"activity_level"}}
        \cup UNION {{[r EXCEPT ![ch] = v] : v \in {NaN, None} \cup OutOfDomain(ch)} :
                        r \in SimulatedRows, ch \in Channels}

InputInit ==
    /\ row \in InputRows
    /\ frame = <<row>>
    /\ health_score = NotCalled
    /\ risk_labels = NotCalled
    /\ recommendations = NotCalled
    /\ anomaly_status = "Normal"
    /\ risk_level = "Low Risk"
    /\ AppInit

InputSpec == InputInit /\ [][Next]_vars

----------------------------------------------------------------------------
(* The HTTP handlers of app.py.  Each handler is one action: the request   *)
(* is served to its end, every exception it raises is caught by the        *)
(* handler's except clause.                                                *)

\* The advisor of gemini_advisor.py, built when the import and the
\* constructor (API key) succeed, with the methods the class defines
GeminiHealthAdvisor ==
    [available |-> TRUE,
     methods |-> {"generate_comprehensive_insights",
                  "_create_health_analysis_prompt", "_describe_trend",
                  "_parse_gemini_response", "generate_quick_insight",
                  "test_connection"}]

\* getattr(advisor, name)
getattr(advisor, name) ==
    IF name \in advisor.methods THEN Returned(name) ELSE Raised("AttributeError")

\* What the Gemini request of one call comes to: a reply that parses into
\* insights, a JSON reply that lacks a required key, a reply that is not
\* JSON, or an exception of the request itself
GeminiReplies == {"insights", "missing_key", "not_json", "request_failed"}

\* the replies tried with analyze and dashboard requests, which call the
\* advisor as realtime requests do
BatchReplies == {"insights", "request_failed"}

GeminiInsights ==
    [summary |-> "summary", key_findings |-> <<"finding">>,
     recommendations |-> <<Msg("ai", "recommendation of the advisor")>>]

\* GeminiHealthAdvisor._parse_gemini_response: json.loads, then the check
\* of the required keys
parse_gemini_response(reply) ==
    CASE reply = "insights" -> Returned(GeminiInsights)
      [] reply = "missing_key" -> Raised("ValueError")
      [] reply = "not_json" -> Raised("JSONDecodeError")

\* GeminiHealthAdvisor.generate_comprehensive_insights: the except clause
\* calls self._fallback_recommendations
generate_comprehensive_insights(advisor, reply) ==
    LET insights == IF reply = "request_failed" THEN Raised("Exception")
                    ELSE parse_gemini_response(reply)
    IN  IF insights.kind = "return" THEN insights
        ELSE IF getattr(advisor, "_fallback_recommendations").kind = "raise"
             THEN getattr(advisor, "_fallback_recommendations")
        ELSE Returned([recommendations |-> <<>>])

\* The outcomes of initialize_models(): every artefact loads, or fewer do
\* and training completes some of its steps
InitOutcomes ==
    {[loaded |-> 3, fitted |-> 0, saved |-> FALSE]}
        \cup [loaded : 0..2, fitted : 0..3, saved : {FALSE}]
        \cup [loaded : 0..2, fitted : {4}, saved : BOOLEAN]

\* the outcomes a request meets: the artefacts load, or none does and the
\* training completes, or fails at its first step, or one loads and the
\* training fails after fit_transform, or two load and the training
\* completes; none when the models are trained
Initialisations ==
    IF model_trained THEN {[loaded |-> 3, fitted |-> 0, saved |-> FALSE]}
    ELSE {[loaded |-> 3, fitted |-> 0, saved |-> FALSE],
          [loaded |-> 0, fitted |-> 4, saved |-> TRUE],
          [loaded |-> 0, fitted |-> 0, saved |-> FALSE],
          [loaded |-> 1, fitted |-> 2, saved |-> FALSE],
          [loaded |-> 2, fitted |-> 4, saved |-> FALSE]}

\* the choices that matter once the models are there: what they predict and
\* what Gemini replies
Ready(o) == model_trained \/ o.loaded = 3 \/ o.fitted = 4
PredictionsWhen(o) == IF Ready(o) THEN Predictions ELSE {<<"Normal", "Low Risk">>}
RepliesWhen(o) ==
    IF Ready(o) /\ gemini_advisor.available THEN GeminiReplies
    ELSE {"request_failed"}

\* the predictions and the reply are only looked at for a frame whose
\* records can all be scored
Readable(df) ==
    /\ df # <<>>
    /\ \A r \in {df[i] : i \in DOMAIN df} :
           first_error(r, "subscript") = "ok"
PredictionsFor(o, df) ==
    IF Readable(df) THEN PredictionsWhen(o) ELSE {<<"Normal", "Low Risk">>}
RepliesFor(o, df) ==
    IF Readable(df) THEN RepliesWhen(o) ELSE {"request_failed"}

\* the error of a failed save is raised to the caller
initialize_models_outcome_saved(o) ==
    IF o.loaded = 3 \/ (o.fitted = 4 /\ o.saved) THEN Returned(o)
    ELSE Raised(o)

\* what the call initialize_models() comes to: it returns, or it raises the
\* error of the training
initialize_models_outcome(o) ==
    IF o.loaded = 3 \/ o.fitted = 4 THEN Returned(o) ELSE Raised(o)

\* if not model_trained: initialize_models()
ensure_models(o) ==
    IF model_trained
    THEN /\ UNCHANGED <<model_trained, preprocessor, anomaly_detector,
                     risk_classifier>>
         /\ initialisation' = NotCalled
    ELSE /\ initialize_models(o.loaded, o.fitted, o.saved)
         /\ initialisation' = initialize_models_outcome(o)

ensure_records(o) ==
    IF model_trained THEN 0 ELSE training_records(o.loaded, o.fitted)

\* preprocessor.transform, the two predictions and the health scores of a
\* frame, with the models as the request finds them after ensure_models;
\* p is what the models predict for the latest record
analyse(df, p) ==
    LET unreadable == {r \in {df[i] : i \in DOMAIN df} :
                          first_error(r, "subscript") # "ok"}
        bad == {i \in DOMAIN df : df[i] \in unreadable}
    IN  IF ~preprocessor'.is_fitted THEN Raised("ValueError")
        ELSE IF df = <<>> THEN Raised("KeyError")
        ELSE IF ~anomaly_detector'.is_fitted \/ ~risk_classifier'.is_fitted
             THEN Raised("ValueError")
        ELSE IF unreadable # {}
             THEN call_calculate_health_score(
                      df[CHOOSE i \in bad : \A j \in bad : i <= j])
        ELSE Returned([latest |-> df[Len(df)],
                       health_score |-> calculate_health_score(df[Len(df)]),
                       anomaly_status |-> p[1], risk_level |-> p[2],
                       total_records |-> Len(df)])

\* using_ai is set as soon as there is an advisor
advise_unchecked(a, reply) ==
    IF gemini_advisor.available
    THEN [using_ai |-> TRUE, recommendations |-> <<>>]
    ELSE [using_ai |-> FALSE,
          recommendations |->
              generate_recommendations(a.latest, a.anomaly_status, a.risk_level)]

\* Recommendations of the advisor when there is one and its call returns,
\* of the rule engine otherwise
advise(a, reply) ==
    LET rules ==
            [using_ai |-> FALSE,
             recommendations |->
                 generate_recommendations(a.latest, a.anomaly_status, a.risk_level)]
        insights == generate_comprehensive_insights(gemini_advisor, reply)
    IN  IF gemini_advisor.available /\ insights.kind = "return"
        THEN [using_ai |-> TRUE,
              recommendations |-> get(insights.value, "recommendations", <<>>),
              ai_insights |-> insights.value]
        ELSE rules

\* response_data of a successful analysis, ai_insights added when there are any
analysis_body(user_id, a, adv) ==
    LET body ==
            [success |-> TRUE, user_id |-> user_id, using_ai |-> adv.using_ai,
             health_score |-> a.health_score,
             anomaly_status |-> a.anomaly_status, risk_level |-> a.risk_level,
             total_records |-> a.total_records,
             recommendations |-> adv.recommendations]
    IN  IF "ai_insights" \in DOMAIN adv
        THEN [k \in DOMAIN body \cup {"ai_insights"} |->
                 IF k = "ai_insights" THEN adv.ai_insights ELSE body[k]]
        ELSE body

\* The response to an analysis a: the error caught by the handler's except
\* clause, answered with its status, or the result set
\* the except clause answers 200 with what was computed so far
analysis_response_partial(op, user_id, status, a, reply) ==
    IF a.kind = "raise"
    THEN Response(op, user_id, 200,
                  [success |-> TRUE, user_id |-> user_id, error |-> a.error])
    ELSE Response(op, user_id, 200,
                  analysis_body(user_id, a.value, advise(a.value, reply)))

analysis_response(op, user_id, status, a, reply) ==
    IF a.kind = "raise" THEN Response(op, user_id, status, Failure(a.error))
    ELSE Response(op, user_id, 200,
                  analysis_body(user_id, a.value, advise(a.value, reply)))

\* the request ends before any record is analysed
refuse(op, user_id, has_data, status, error) ==
    /\ response' = [Response(op, user_id, status, Failure(error))
                        EXCEPT !.has_data = has_data]
    /\ no_analysis

\* the request ends with its analysis a: the response, the latest record
\* when the analysis got to one, and what the advisor's call came to when
\* there was one
answer(op, user_id, has_data, status, a, reply) ==
    /\ response' = [analysis_response(op, user_id, status, a, reply)
                        EXCEPT !.has_data = has_data]
    /\ latest_record' =
          IF a.kind = "return" THEN Returned(a.value.latest) ELSE NotCalled
    /\ gemini_insights' =
          IF a.kind = "return" /\ gemini_advisor.available
          THEN generate_comprehensive_insights(gemini_advisor, reply)
          ELSE NotCalled

\* the 'data' field of an analyze request: absent, or a list of records
NoData == [present |-> FALSE]
InlineData ==
    {NoData} \cup
    {[present |-> TRUE, records |-> df] :
        df \in {<<>>, <<AnomalousReading>>,
                <<Without(NormalReading, "heart_rate")>>}}

\* df of an analyze request: the 'data' field, else the stored frame
analyze_frame(user_id, data) ==
    IF data.present THEN data.records
    ELSE IF user_id \in DOMAIN user_data_store THEN user_data_store[user_id]
    ELSE <<>>

\* the frame of the request is kept under the user id
analyze_health_data_storing(user_id, data, o, p, reply) ==
    /\ response # Exited
    /\ ensure_models(o)
    /\ rng_state' = advance(rng_state, ensure_records(o))
    /\ IF ~model_trained'
       THEN refuse("analyze", user_id, data.present, 500, "initialize_models")
       ELSE IF ~data.present /\ user_id \notin DOMAIN user_data_store
       THEN refuse("analyze", user_id, data.present, 400,
                   "No data provided or found for user")
       ELSE \E a \in {analyse(analyze_frame(user_id, data), p)} :
                answer("analyze", user_id, data.present, 500, a, reply)
    /\ user_data_store' =
          IF data.present THEN store(user_id, data.records)
          ELSE user_data_store
    /\ UNCHANGED <<coreVars, callVars, gemini_advisor,
                   simulated, threads>>

\* POST /api/health/analyze
analyze_health_data(user_id, data, o, p, reply) ==
    /\ response # Exited
    /\ ensure_models(o)
    /\ rng_state' = advance(rng_state, ensure_records(o))
    /\ IF ~model_trained'
       THEN refuse("analyze", user_id, data.present, 500, "initialize_models")
       ELSE IF ~data.present /\ user_id \notin DOMAIN user_data_store
       THEN refuse("analyze", user_id, data.present, 400,
                   "No data provided or found for user")
       ELSE \E a \in {analyse(analyze_frame(user_id, data), p)} :
                answer("analyze", user_id, data.present, 500, a, reply)
    /\ UNCHANGED <<coreVars, user_data_store, callVars, gemini_advisor,
                   simulated, threads>>

\* the vitals of a realtime request; data.get gives None for a missing one
RealtimeRecords ==
    SimulatedRows \cup {[NormalReading EXCEPT ![ch] = None] : ch \in Channels}

\* POST /api/health/realtime
analyze_realtime_data(user_id, record_data, o, p, reply) ==
    /\ response # Exited
    /\ ensure_models(o)
    /\ rng_state' = advance(rng_state, ensure_records(o))
    /\ IF ~model_trained'
       THEN refuse("realtime", user_id, FALSE, 400, "initialize_models")
       ELSE \E a \in {analyse(<<record_data>>, p)} :
                answer("realtime", user_id, FALSE, 400, a, reply)
    /\ UNCHANGED <<coreVars, user_data_store, callVars, gemini_advisor,
                   simulated, threads>>

\* the handler answers from an entry it creates: user_data_store.setdefault
NoDataFound_setdefault(op, user_id) ==
    Response(op, user_id, 200, [success |-> TRUE, num_records |-> 0])

NoDataFound(op, user_id) ==
    Response(op, user_id, 404, Failure("No data found for user"))

\* GET /api/health/history/<user_id>?limit=
get_user_history(user_id, args) ==
    /\ response # Exited
    /\ response' =
          [(IF user_id \notin DOMAIN user_data_store
            THEN NoDataFound("history", user_id)
            ELSE LET limit == IF args.limit = None THEN 100 ELSE args.limit
                     df == tail(between(user_data_store[user_id],
                                        args.start_date, args.end_date),
                                limit)
                 IN  Response("history", user_id, 200,
                              [success |-> TRUE, user_id |-> user_id,
                               num_records |-> Len(df), data |-> df]))
           EXCEPT !.args = args]
    /\ no_analysis
    /\ initialisation' = NotCalled
    /\ UNCHANGED <<coreVars, appVars, callVars, gemini_advisor, simulated,
                   threads>>

\* GET /api/health/statistics/<user_id>: a frame without rows has no columns
get_user_statistics(user_id) ==
    /\ response # Exited
    /\ response' =
          IF user_id \notin DOMAIN user_data_store
          THEN NoDataFound("statistics", user_id)
          ELSE LET df == user_data_store[user_id]
                   hr == {df[i].heart_rate : i \in DOMAIN df}
               IN  IF df = <<>>
                   THEN Response("statistics", user_id, 500, Failure("KeyError"))
                   ELSE Response("statistics", user_id, 200,
                            [success |-> TRUE, user_id |-> user_id,
                             statistics |->
                                 [heart_rate |->
                                     [min |-> CHOOSE x \in hr : \A y \in hr : x <= y,
                                      max |-> CHOOSE x \in hr : \A y \in hr : x >= y]]])
    /\ no_analysis
    /\ initialisation' = NotCalled
    /\ UNCHANGED <<coreVars, appVars, callVars, gemini_advisor, simulated,
                   threads>>

\* GET /api/health/export/<user_id>
export_user_data(user_id) ==
    /\ response # Exited
    /\ response' =
          IF user_id \notin DOMAIN user_data_store
          THEN NoDataFound("export", user_id)
          ELSE Response("export", user_id, 200,
                        [mimetype |-> "text/csv", csv |-> user_data_store[user_id]])
    /\ no_analysis
    /\ initialisation' = NotCalled
    /\ UNCHANGED <<coreVars, appVars, callVars, gemini_advisor, simulated,
                   threads>>

\* the handler with the 'if not model_trained' test of line 564 reversed
get_model_info_reversed ==
    /\ response # Exited
    /\ response' =
          IF model_trained
          THEN Response("model-info", "", 400, Failure("Models not initialized"))
          ELSE Response("model-info", "", 200,
                        [success |-> TRUE,
                         models |-> [ai_advisor |-> gemini_advisor.available]])
    /\ no_analysis
    /\ initialisation' = NotCalled
    /\ UNCHANGED <<coreVars, appVars, callVars, gemini_advisor, simulated,
                   threads>>

\* GET /api/model/info
get_model_info ==
    /\ response # Exited
    /\ response' =
          IF ~model_trained
          THEN Response("model-info", "", 400, Failure("Models not initialized"))
          ELSE Response("model-info", "", 200,
                        [success |-> TRUE,
                         models |-> [ai_advisor |-> gemini_advisor.available]])
    /\ no_analysis
    /\ initialisation' = NotCalled
    /\ UNCHANGED <<coreVars, appVars, callVars, gemini_advisor, simulated,
                   threads>>

\* simulator.generate_user_data(user_id, num_records=100)
DashboardRecords == 100

\* the 100 records generated in each state of the generator (state rng at
\* index rng + 1)
dashboard_records ==
    LET frames == [i \in 1..RngPeriod |->
                      generate_user_data(i - 1, DashboardRecords)]
    IN  SubSeq(frames, 1, RngPeriod)

\* the frame a dashboard request works on: the stored one, or a new one of
\* 100 records drawn after the training records, if any
dashboard_frame(user_id, o) ==
    IF user_id \in DOMAIN user_data_store THEN user_data_store[user_id]
    ELSE dashboard_records[advance(rng_state, ensure_records(o)) + 1]

\* the generated frame is analysed but not kept
dashboard_data_unstored(user_id, o) ==
    /\ ensure_models(o)
    /\ UNCHANGED user_data_store
    /\ rng_state' =
           advance(rng_state,
                   ensure_records(o)
                       + (IF model_trained' /\ user_id \notin DOMAIN user_data_store
                          THEN DashboardRecords ELSE 0))

\* the first lines of get_dashboard_data and of the stream's generator:
\* models, then the user's frame, generated and stored when there is none
dashboard_data(user_id, o) ==
    /\ ensure_models(o)
    /\ IF model_trained' /\ user_id \notin DOMAIN user_data_store
       THEN /\ user_data_store' = store(user_id, dashboard_frame(user_id, o))
            /\ rng_state' =
                   advance(rng_state, ensure_records(o) + DashboardRecords)
       ELSE /\ UNCHANGED user_data_store
            /\ rng_state' = advance(rng_state, ensure_records(o))

\* GET /api/health/dashboard/<user_id>
get_dashboard_data(user_id, o, p, reply) ==
    /\ response # Exited
    /\ dashboard_data(user_id, o)
    /\ IF ~model_trained'
       THEN refuse("dashboard", user_id, FALSE, 500, "initialize_models")
       ELSE \E a \in {analyse(dashboard_frame(user_id, o), p)} :
                answer("dashboard", user_id, FALSE, 500, a, reply)
    /\ UNCHANGED <<coreVars, callVars, gemini_advisor, simulated, threads>>

\* What a streaming method of the advisor yields: its chunks, and whether it
\* raises after the last of them
ChunkStreams ==
    {[chunks |-> <<"{\"summary\": ">>, raised |-> FALSE],
     [chunks |-> <<"{\"summary\": ", "\"stable\"}">>, raised |-> FALSE],
     [chunks |-> <<"{\"summary\": ">>, raised |-> TRUE]}

\* a stream is read only when the advisor has the streaming method
StreamsWhen(o) ==
    IF /\ Ready(o)
       /\ getattr(gemini_advisor,
                  "generate_comprehensive_insights_stream").kind = "return"
    THEN ChunkStreams
    ELSE {[chunks |-> <<>>, raised |-> FALSE]}

Event(type) == [type |-> type]

fallback_event(a) ==
    [type |-> "fallback", using_ai |-> FALSE,
     recommendations |->
         generate_recommendations(a.latest, a.anomaly_status, a.risk_level)]

\* a failure of the advisor's call is reported as an error event
insight_events_error(a, stream) ==
    IF gemini_advisor.available
    THEN <<[type |-> "ai_start", using_ai |-> TRUE],
           [type |-> "error", error |-> "AttributeError"]>>
    ELSE <<fallback_event(a)>>

\* the events after 'metrics' and before 'complete'
insight_events(a, stream) ==
    IF gemini_advisor.available
    THEN <<[type |-> "ai_start", using_ai |-> TRUE]>> \o
         (IF getattr(gemini_advisor,
                     "generate_comprehensive_insights_stream").kind = "raise"
          THEN <<fallback_event(a)>>
          ELSE [i \in DOMAIN stream.chunks |->
                   [type |-> "ai_chunk", chunk |-> stream.chunks[i]]] \o
               (IF stream.raised THEN <<fallback_event(a)>>
                ELSE <<Event("ai_complete")>>))
    ELSE <<fallback_event(a)>>

metrics_event(a) ==
    [type |-> "metrics", health_score |-> a.health_score,
     anomaly |-> a.anomaly_status, risk_level |-> a.risk_level,
     total_records |-> a.total_records]

\* the events generate() yields for an analysis a
analysis_events(a, stream) ==
    IF a.kind = "raise" THEN <<[type |-> "error", error |-> a.error]>>
    ELSE <<metrics_event(a.value)>> \o insight_events(a.value, stream)
             \o <<Event("complete")>>

\* the analysis inside generate(): any exception, that of
\* initialize_models included, goes to the generator's except clause
stream_analysis(user_id, o, p) ==
    IF ~model_trained' THEN Raised("initialize_models")
    ELSE analyse(dashboard_frame(user_id, o), p)

\* Response(generate(), mimetype='text/event-stream'), read to its end
stream_answer(user_id, a, stream) ==
    /\ response' =
          Response("stream", user_id, 200,
                   [mimetype |-> "text/event-stream",
                    events |-> analysis_events(a, stream)])
    /\ latest_record' =
          IF a.kind = "return" THEN Returned(a.value.latest) ELSE NotCalled
    /\ gemini_insights' = NotCalled

\* GET /api/health/dashboard/<user_id>/stream
stream_dashboard_insights(user_id, o, p, stream) ==
    /\ response # Exited
    /\ dashboard_data(user_id, o)
    /\ \E a \in {stream_analysis(user_id, o, p)} :
           stream_answer(user_id, a, stream)
    /\ UNCHANGED <<coreVars, callVars, gemini_advisor, simulated, threads>>

\* python app.py: initialize_models() runs before the server starts; when
\* it raises the process exits
main(o) ==
    /\ response = NotCalled
    /\ ~model_trained
    /\ initialize_models(o.loaded, o.fitted, o.saved)
    /\ initialisation' = initialize_models_outcome(o)
    /\ rng_state' = advance(rng_state, training_records(o.loaded, o.fitted))
    /\ response' = IF model_trained' THEN response ELSE Exited
    /\ UNCHANGED <<coreVars, user_data_store, callVars, gemini_advisor,
                   simulated, requestVars, threads>>

\* request.args of a history request: limit, start_date and end_date, each
\* given or not
HistoryArgs ==
    {NoArgs,
     [limit |-> 0, start_date |-> None, end_date |-> None],
     [limit |-> 1, start_date |-> None, end_date |-> None],
     [limit |-> None, start_date |-> 2, end_date |-> None],
     [limit |-> None, start_date |-> None, end_date |-> 50],
     [limit |-> 1, start_date |-> 2, end_date |-> 51]}

Main == \E o \in Initialisations : main(o)

AnalyzeHealthData ==
    \E user_id \in Users, data \in InlineData, o \in Initialisations :
        \E p \in PredictionsFor(o, analyze_frame(user_id, data)),
           reply \in RepliesFor(o, analyze_frame(user_id, data))
                         \cap BatchReplies :
            analyze_health_data(user_id, data, o, p, reply)

AnalyzeRealtimeData ==
    \E record_data \in RealtimeRecords, o \in Initialisations :
        \E p \in PredictionsFor(o, <<record_data>>),
           reply \in RepliesFor(o, <<record_data>>) :
            analyze_realtime_data("unknown", record_data, o, p, reply)

GetUserHistory ==
    \E user_id \in Users, args \in HistoryArgs :
        get_user_history(user_id, args)

GetUserStatistics == \E user_id \in Users : get_user_statistics(user_id)

ExportUserData == \E user_id \in Users : export_user_data(user_id)

GetModelInfo == get_model_info

StreamDashboardInsights ==
    \E user_id \in Users, o \in Initialisations :
        \E p \in PredictionsWhen(o), stream \in StreamsWhen(o) :
            stream_dashboard_insights(user_id, o, p, stream)

GetDashboardData ==
    \E user_id \in Users, o \in Initialisations :
        \E p \in PredictionsWhen(o),
           reply \in RepliesWhen(o) \cap BatchReplies :
            get_dashboard_data(user_id, o, p, reply)

ApiInit ==
    /\ row = NormalReading
    /\ frame = <<row>>
    /\ health_score = NotCalled
    /\ risk_labels = NotCalled
    /\ recommendations = NotCalled
    /\ anomaly_status = "Normal"
    /\ risk_level = "Low Risk"
    /\ user_data_store = <<>>
    /\ model_trained = FALSE
    /\ preprocessor = [is_fitted |-> FALSE]
    /\ anomaly_detector = [is_fitted |-> FALSE]
    /\ risk_classifier = [is_fitted |-> FALSE]
    /\ rng_state = 0
    /\ first_call = NotCalled
    /\ last_call = NotCalled
    /\ gemini_advisor \in {NoAdvisor, GeminiHealthAdvisor}
    /\ response = NotCalled
    /\ simulated = {}
    /\ latest_record = NotCalled
    /\ gemini_insights = NotCalled
    /\ threads = [t \in Threads |-> Idle]
    /\ initialisation = NotCalled

ApiNext ==
    \/ Main
    \/ SimulateHealthData
    \/ AnalyzeHealthData
    \/ AnalyzeRealtimeData
    \/ GetUserHistory
    \/ GetUserStatistics
    \/ ExportUserData
    \/ GetModelInfo
    \/ StreamDashboardInsights
    \/ GetDashboardData

ApiSpec == ApiInit /\ [][ApiNext]_vars

----------------------------------------------------------------------------
(* Requests served at once.  The development server of app.run and of      *)
(* `flask run` (FLASK_APP=app.py, setup.py) handles each request in a      *)
(* thread of its own; under `flask run` the module is imported and         *)
(* initialize_models() of the __main__ block has not run.  A thread takes  *)
(* the steps of `if not model_trained: initialize_models()` and of the     *)
(* analysis one at a time, and the threads share model_trained, the        *)
(* preprocessor and the two models.  analyze_health_data,                   *)
(* analyze_realtime_data, get_dashboard_data and the generator of          *)
(* stream_dashboard_insights all begin with these steps.                   *)

\* a request within its handler: what it read of model_trained, the
\* artefacts it has loaded and the training steps it has completed within
\* initialize_models(), and whether it has replaced or fitted a shared
\* object when model_trained was already set
At(pc, observed, loaded, fitted, late) ==
    [pc |-> pc, observed |-> observed, loaded |-> loaded, fitted |-> fitted,
     late |-> late]

Move(t, pc) == threads' = [threads EXCEPT ![t].pc = pc]

\* initialize_models() returns or raises: its progress is forgotten
Leave(t, pc) ==
    threads' =
        [threads EXCEPT
            ![t] = At(pc, threads[t].observed, 0, 0, threads[t].late)]

\* if not model_trained: the global is read once, and nothing is held
\* between the read and the call that follows it
ObserveModelTrained(t) ==
    /\ threads[t] = Idle
    /\ threads' =
          [threads EXCEPT ![t] =
              At(IF model_trained THEN "checked" ELSE "loading",
                 model_trained, 0, 0, FALSE)]
    /\ UNCHANGED <<coreVars, appVars, callVars, gemini_advisor, response,
                   simulated, requestVars, initialisation>>

\* the next of anomaly_detector.load_model, risk_classifier.load_model and
\* preprocessor.load_scaler: the object of the file replaces the shared
\* one, or the load raises and the training begins
LoadModel(t) ==
    /\ threads[t].pc = "loading"
    /\ \E raises \in BOOLEAN :
          IF raises
          THEN /\ Move(t, "training")
               /\ UNCHANGED <<anomaly_detector, risk_classifier, preprocessor>>
          ELSE /\ threads' =
                      [threads EXCEPT
                          ![t].loaded = @ + 1,
                          ![t].late = @ \/ model_trained,
                          ![t].pc = IF threads[t].loaded = 2 THEN "loaded"
                                    ELSE "loading"]
               /\ anomaly_detector' =
                      IF threads[t].loaded = 0 THEN [is_fitted |-> TRUE]
                      ELSE anomaly_detector
               /\ risk_classifier' =
                      IF threads[t].loaded = 1 THEN [is_fitted |-> TRUE]
                      ELSE risk_classifier
               /\ preprocessor' =
                      IF threads[t].loaded = 2 THEN [is_fitted |-> TRUE]
                      ELSE preprocessor
    /\ UNCHANGED <<coreVars, user_data_store, model_trained, rng_state,
                   callVars, gemini_advisor, response, simulated,
                   requestVars, initialisation>>

\* the next of generate_multi_user_data, preprocessor.fit_transform,
\* anomaly_detector.fit and risk_classifier.fit: the shared object is
\* fitted, or the step raises and initialize_models() raises with it
FitModel(t) ==
    /\ threads[t].pc = "training"
    /\ \E raises \in BOOLEAN :
          IF raises
          THEN /\ Leave(t, "failed")
               /\ UNCHANGED <<anomaly_detector, risk_classifier, preprocessor,
                              rng_state>>
          ELSE /\ threads' =
                      [threads EXCEPT
                          ![t].fitted = @ + 1,
                          ![t].late = @ \/ (model_trained
                                                /\ threads[t].fitted >= 1),
                          ![t].pc = IF threads[t].fitted = 3 THEN "fitted"
                                    ELSE "training"]
               /\ rng_state' =
                      IF threads[t].fitted = 0
                      THEN advance(rng_state, 10 * 200) ELSE rng_state
               /\ preprocessor' =
                      IF threads[t].fitted = 1 THEN [is_fitted |-> TRUE]
                      ELSE preprocessor
               /\ anomaly_detector' =
                      IF threads[t].fitted = 2 THEN [is_fitted |-> TRUE]
                      ELSE anomaly_detector
               /\ risk_classifier' =
                      IF threads[t].fitted = 3 THEN [is_fitted |-> TRUE]
                      ELSE risk_classifier
    /\ UNCHANGED <<coreVars, user_data_store, model_trained, callVars,
                   gemini_advisor, response, simulated, requestVars,
                   initialisation>>

\* model_trained = True, after the loads or after the training and the
\* save, whose error is logged
SetModelTrained(t) ==
    /\ threads[t].pc \in {"loaded", "fitted"}
    /\ model_trained' = TRUE
    /\ Leave(t, "checked")
    /\ UNCHANGED <<coreVars, user_data_store, preprocessor, anomaly_detector,
                   risk_classifier, rng_state, callVars, gemini_advisor,
                   response, simulated, requestVars, initialisation>>

\* the threads within initialize_models() that replace or fit the shared
\* objects
Initialising(t) == threads[t].pc \in {"loading", "loaded", "training", "fitted"}
Fitting(t) == threads[t].pc = "training" /\ threads[t].fitted >= 1

\* preprocessor.transform(df): is_fitted is read, then the scaler is used
BeginTransform(t) ==
    /\ threads[t].pc = "checked"
    /\ Move(t, IF preprocessor.is_fitted THEN "transforming" ELSE "failed")
    /\ UNCHANGED <<coreVars, appVars, callVars, gemini_advisor, response,
                   simulated, requestVars, initialisation>>

\* scaler.transform and the predictions of the two models return; with a
\* thread that fits the same scaler and models at that time they return or
\* raise
EndTransform(t) ==
    /\ threads[t].pc = "transforming"
    /\ \E raises \in (IF \E u \in Threads \ {t} : Fitting(u) THEN BOOLEAN
                      ELSE {FALSE}) :
          Move(t, IF raises THEN "failed" ELSE "done")
    /\ UNCHANGED <<coreVars, appVars, callVars, gemini_advisor, response,
                   simulated, requestVars, initialisation>>

ConcInit == ApiInit /\ gemini_advisor = NoAdvisor

ConcNext ==
    \E t \in Threads :
        \/ ObserveModelTrained(t)
        \/ LoadModel(t)
        \/ FitModel(t)
        \/ SetModelTrained(t)
        \/ BeginTransform(t)
        \/ EndTransform(t)

ConcSpec == ConcInit /\ [][ConcNext]_vars

----------------------------------------------------------------------------
(* Properties of the core functions *)

\* The record's vitals are all in the normal bands of calculate_health_score
NormalVitals(r) ==
    /\ 60 <= r.heart_rate /\ r.heart_rate <= 100
    /\ r.blood_oxygen >= 95
    /\ 361 <= r.temperature /\ r.temperature <= 372

\* C1: calculate_health_score returns an integer between 0 and 100 for
\* every record, extreme values in all three channels included.
C1_ScoreInRange ==
    health_score.kind = "return" => health_score.value \in 0..100

C1_Witness ==
    /\ health_score.kind = "return"
    /\ row.heart_rate = MaxHeartRate
    /\ row.blood_oxygen = 0
    /\ row.temperature = MaxTemperature
    /\ health_score.value = 25

\* The penalty table of the claim, with the bands of the Config constants
TableHeartRatePenalty(hr) ==
    IF HEART_RATE_NORMAL[1] <= hr /\ hr <= HEART_RATE_NORMAL[2] THEN 0
    ELSE IF (HEART_RATE_WARNING[1] <= hr /\ hr < HEART_RATE_NORMAL[1])
            \/ (HEART_RATE_NORMAL[2] < hr /\ hr <= HEART_RATE_WARNING[2])
         THEN 10
    ELSE 25

TableBloodOxygenPenalty(spo2) ==
    IF spo2 >= BLOOD_OXYGEN_NORMAL[1] THEN 0
    ELSE IF BLOOD_OXYGEN_WARNING[1] <= spo2 /\ spo2 < BLOOD_OXYGEN_WARNING[2]
         THEN 15
    ELSE 30

TableTemperaturePenalty(t) ==
    IF TEMPERATURE_NORMAL[1] <= t /\ t <= TEMPERATURE_NORMAL[2] THEN 0
    ELSE IF (TEMPERATURE_WARNING[1] <= t /\ t < TEMPERATURE_NORMAL[1])
            \/ (TEMPERATURE_NORMAL[2] < t /\ t <= TEMPERATURE_WARNING[2])
         THEN 10
    ELSE 20

\* C2: the score is 100 minus the sum of three penalties, each a function
\* of its own channel alone, with the bands 0/10/25, 0/15/30 and 0/10/20 of
\* the claim's table.
C2_ScoreIsHundredMinusPenalties ==
    health_score.kind = "return" =>
        health_score.value =
            100 - (TableHeartRatePenalty(row.heart_rate)
                   + TableBloodOxygenPenalty(row.blood_oxygen)
                   + TableTemperaturePenalty(row.temperature))

C2_Witness ==
    /\ health_score.kind = "return"
    /\ TableHeartRatePenalty(row.heart_rate) = 10
    /\ TableBloodOxygenPenalty(row.blood_oxygen) = 30
    /\ TableTemperaturePenalty(row.temperature) = 10
    /\ health_score.value = 50

\* C3: a record whose three vitals are in the normal bands (bounds
\* included) scores exactly 100, whatever its other fields are.
C3_NormalVitalsScoreHundred ==
    (health_score.kind = "return" /\ NormalVitals(row)) =>
        health_score.value = 100

C3_Witness ==
    /\ health_score.kind = "return"
    /\ health_score.value = 100
    /\ row.heart_rate = 60
    /\ row.blood_oxygen = 95
    /\ row.temperature = 372
    /\ row.activity_level = "high"

\* The point table of the claim
TableHeartRatePoints(hr) ==
    IF hr < 50 \/ hr > 120 THEN 2
    ELSE IF (50 <= hr /\ hr < 60) \/ (100 < hr /\ hr <= 120) THEN 1
    ELSE 0

TableBloodOxygenPoints(spo2) ==
    IF spo2 < 90 THEN 2
    ELSE IF 90 <= spo2 /\ spo2 < 95 THEN 1
    ELSE 0

TableTemperaturePoints(t) ==
    IF t < 355 \/ t > 380 THEN 2
    ELSE IF (355 <= t /\ t < 361) \/ (375 < t /\ t <= 380) THEN 1
    ELSE 0

TableRiskScore(r) ==
    TableHeartRatePoints(r.heart_rate)
        + TableBloodOxygenPoints(r.blood_oxygen)
        + TableTemperaturePoints(r.temperature)

\* C4: create_risk_labels adds 2, 1 or 0 points per channel by the claim's
\* bands and labels the record 2 (High) from 4 points, 1 (Medium) from 2
\* points and 0 (Low) below.
C4_RiskLabelFromPoints ==
    risk_labels.kind = "return" =>
        risk_labels.value[1] =
            IF TableRiskScore(row) >= 4 THEN 2
            ELSE IF TableRiskScore(row) >= 2 THEN 1
            ELSE 0

C4_Witness ==
    /\ risk_labels.kind = "return"
    /\ risk_labels.value[1] = 2
    /\ TableRiskScore(row) = 4
    /\ TableTemperaturePoints(row.temperature) = 1

\* The value b of a channel with normal band [lo, hi] is at least as far
\* outside the band as a, on the side a is on
AtLeastAsSevere(lo, hi, a, b) ==
    \/ lo <= a /\ a <= hi
    \/ a < lo /\ b <= a
    \/ a > hi /\ b >= a

DifferOnlyIn(ch, r1, r2) ==
    /\ r1[ch] # r2[ch]
    /\ \A f \in DOMAIN r1 \ {ch} : r1[f] = r2[f]

SecondIsWorse(r1, r2) ==
    \/ /\ DifferOnlyIn("heart_rate", r1, r2)
       /\ AtLeastAsSevere(60, 100, r1.heart_rate, r2.heart_rate)
    \/ /\ DifferOnlyIn("blood_oxygen", r1, r2)
       /\ (r1.blood_oxygen >= 95 \/ r2.blood_oxygen <= r1.blood_oxygen)
    \/ /\ DifferOnlyIn("temperature", r1, r2)
       /\ AtLeastAsSevere(361, 375, r1.temperature, r2.temperature)

\* C5: of two records that differ in one vital, the second at least as far
\* outside the normal band on the same side as the first, the second never
\* gets a lower label (Low 0 < Medium 1 < High 2) than the first.
C5_LabelMonotonicInSeverity ==
    (/\ risk_labels.kind = "return"
     /\ Len(frame) = 2
     /\ SecondIsWorse(frame[1], frame[2]))
    => risk_labels.value[2] >= risk_labels.value[1]

C5_Witness ==
    /\ risk_labels = Returned(<<1, 2>>)
    /\ frame[1].heart_rate = 59
    /\ frame[2].heart_rate = 49
    /\ frame[1].blood_oxygen = 89
    /\ frame[1].temperature = 375

\* C6: heart rates 50 and 120 are in the moderate band of both functions
\* (10 off the score, 1 risk point); 49 and 121 are in the severe band (25
\* off the score, 2 risk points).
C6_HeartRateBoundariesModerate ==
    LET scoreWith(p) ==
            temperature_scoring(blood_oxygen_scoring(100 - p, row), row)
        labelWith(p) ==
            classify_risk_level(
                temperature_risk(blood_oxygen_risk(p, row), row))
    IN  /\ (health_score.kind = "return" /\ row.heart_rate \in {50, 120})
               => health_score.value = scoreWith(10)
        /\ (health_score.kind = "return" /\ row.heart_rate \in {49, 121})
               => health_score.value = scoreWith(25)
        /\ (risk_labels.kind = "return" /\ row.heart_rate \in {50, 120})
               => risk_labels.value[1] = labelWith(1)
        /\ (risk_labels.kind = "return" /\ row.heart_rate \in {49, 121})
               => risk_labels.value[1] = labelWith(2)

C6_Witness ==
    /\ row.heart_rate = 120
    /\ row.blood_oxygen = 95
    /\ row.temperature = 361
    /\ health_score = Returned(90)
    /\ risk_labels = Returned(<<0>>)

\* C7: a temperature above 37.2 and up to 37.5 costs 10 points of score but
\* no risk point; from 36.1 to 37.2 both functions treat it as normal, and
\* above 37.5 up to 38.0 both treat it as a minor deviation (10 points of
\* score, 1 risk point).
C7_TemperatureCutoffsDiffer ==
    LET t == row.temperature
        scoreWith(p) == blood_oxygen_scoring(heart_rate_scoring(100, row), row) - p
        labelWith(p) ==
            classify_risk_level(blood_oxygen_risk(heart_rate_risk(0, row), row) + p)
    IN  /\ (health_score.kind = "return" /\ 372 < t /\ t <= 375)
               => health_score.value = scoreWith(10)
        /\ (risk_labels.kind = "return" /\ 372 < t /\ t <= 375)
               => risk_labels.value[1] = labelWith(0)
        /\ (health_score.kind = "return" /\ 361 <= t /\ t <= 372)
               => health_score.value = scoreWith(0)
        /\ (risk_labels.kind = "return" /\ 361 <= t /\ t <= 372)
               => risk_labels.value[1] = labelWith(0)
        /\ (health_score.kind = "return" /\ 375 < t /\ t <= 380)
               => health_score.value = scoreWith(10)
        /\ (risk_labels.kind = "return" /\ 375 < t /\ t <= 380)
               => risk_labels.value[1] = labelWith(1)

C7_Witness ==
    /\ row.temperature = 375
    /\ row.heart_rate = 100
    /\ row.blood_oxygen = 94
    /\ health_score = Returned(75)
    /\ risk_labels = Returned(<<0>>)

Count(m, seq) == Cardinality({i \in DOMAIN seq : seq[i] = m})

\* C8: for a record with normal vitals and moderate activity, risk level
\* Low and anomaly status Normal, the recommendations are exactly the two
\* Low-risk messages, and none of them is a warning or an urgent entry.
C8_NormalRecordOnlyLowRiskMessages ==
    (/\ recommendations.kind = "return"
     /\ NormalVitals(row)
     /\ row.activity_level = "moderate"
     /\ risk_level = "Low Risk"
     /\ anomaly_status = "Normal")
    => /\ recommendations.value = <<MSG_LOW_RISK, MSG_LOW_RISK_REST>>
       /\ \A i \in DOMAIN recommendations.value :
             recommendations.value[i].icon \notin {"warning", "urgent"}

C8_Witness ==
    /\ recommendations.kind = "return"
    /\ row.heart_rate = 60
    /\ row.blood_oxygen = 95
    /\ row.temperature = 372
    /\ row.activity_level = "moderate"
    /\ risk_level = "Low Risk"
    /\ anomaly_status = "Normal"
    /\ Len(recommendations.value) = 2

\* C9: for heart_rate < 50, blood_oxygen < 90, temperature > 38.0, risk
\* level High and anomaly status Anomaly the list has at least 5 entries and
\* holds the low-heart-rate, critical-oxygen, fever, HIGH RISK ALERT and
\* unusual-pattern messages exactly once each.
C9_CriticalRecordMessages ==
    (/\ recommendations.kind = "return"
     /\ row.heart_rate < 50
     /\ row.blood_oxygen < 90
     /\ row.temperature > 380
     /\ risk_level = "High Risk"
     /\ anomaly_status = "Anomaly")
    => /\ Len(recommendations.value) >= 5
       /\ \A m \in {MSG_HR_LOW, MSG_SPO2_CRITICAL, MSG_FEVER, MSG_HIGH_RISK,
                    MSG_ANOMALY} : Count(m, recommendations.value) = 1

C9_Witness ==
    /\ recommendations.kind = "return"
    /\ row.heart_rate = 49
    /\ row.blood_oxygen = 89
    /\ row.temperature = 381
    /\ row.activity_level = "high"
    /\ risk_level = "High Risk"
    /\ anomaly_status = "Anomaly"
    /\ Len(recommendations.value) = 10

RuleOf(m) ==
    CASE m \in {MSG_HR_LOW, MSG_HR_LOW_TIP, MSG_HR_HIGH, MSG_HR_HIGH_TIP} -> 1
      [] m \in {MSG_SPO2_LOW, MSG_SPO2_CRITICAL} -> 2
      [] m \in {MSG_TEMP_HIGH, MSG_FEVER, MSG_TEMP_LOW} -> 3
      [] m \in {MSG_ACTIVITY_LOW, MSG_ACTIVITY_HIGH} -> 4
      [] m \in {MSG_HIGH_RISK, MSG_HIGH_RISK_EMERGENCY, MSG_MEDIUM_RISK,
                MSG_MEDIUM_RISK_MONITOR, MSG_LOW_RISK, MSG_LOW_RISK_REST} -> 5
      [] m = MSG_ANOMALY -> 6

DirectlyAfter(first, second, seq) ==
    \A i \in DOMAIN seq :
        seq[i] = second => (i > 1 /\ seq[i - 1] = first)

\* C11: the messages of generate_recommendations come in rule-declaration
\* order (heart rate, blood oxygen, temperature, activity, risk level,
\* anomaly); the critical oxygen message directly follows the below-normal
\* one and the fever message directly follows the elevated-temperature one;
\* the anomaly message, when the status is Anomaly, is the last entry; and
\* every rule fires on its own condition whatever the earlier rules did
\* (there is no early return).
C11_RuleOrderNoEarlyReturn ==
    recommendations.kind = "return" =>
        LET recs == recommendations.value
            n == Len(recs)
        IN  /\ \A i \in 1..(n - 1) : RuleOf(recs[i]) <= RuleOf(recs[i + 1])
            /\ DirectlyAfter(MSG_SPO2_LOW, MSG_SPO2_CRITICAL, recs)
            /\ DirectlyAfter(MSG_TEMP_HIGH, MSG_FEVER, recs)
            /\ (anomaly_status = "Anomaly") <=> (n > 0 /\ recs[n] = MSG_ANOMALY)
            /\ Count(MSG_ANOMALY, recs) = (IF anomaly_status = "Anomaly" THEN 1 ELSE 0)
            /\ (\E i \in 1..n : RuleOf(recs[i]) = 1)
                   <=> (row.heart_rate < 60 \/ row.heart_rate > 100)
            /\ Count(MSG_SPO2_LOW, recs) = (IF row.blood_oxygen < 95 THEN 1 ELSE 0)
            /\ Count(MSG_SPO2_CRITICAL, recs) = (IF row.blood_oxygen < 90 THEN 1 ELSE 0)
            /\ Count(MSG_TEMP_HIGH, recs) = (IF row.temperature > 375 THEN 1 ELSE 0)
            /\ Count(MSG_FEVER, recs) = (IF row.temperature > 380 THEN 1 ELSE 0)
            /\ Count(MSG_TEMP_LOW, recs) = (IF row.temperature < 360 THEN 1 ELSE 0)
            /\ Count(MSG_ACTIVITY_LOW, recs)
                   = (IF row.activity_level = "low" THEN 1 ELSE 0)
            /\ Cardinality({i \in 1..n : RuleOf(recs[i]) = 5}) = 2

\* a critical oxygen reading and a fever, flagged as an anomaly, whose later
\* rules (risk level, anomaly) still fired
C11_Witness ==
    /\ recommendations.kind = "return"
    /\ row.blood_oxygen < 90
    /\ row.temperature > 380
    /\ anomaly_status = "Anomaly"
    /\ risk_level = "Medium Risk"
    /\ LET recs == recommendations.value
       IN  /\ recs[Len(recs)] = MSG_ANOMALY
           /\ recs[Len(recs) - 1] = MSG_MEDIUM_RISK_MONITOR
           /\ Count(MSG_SPO2_CRITICAL, recs) = 1

\* C12 as stated: the list has between zero and 10 entries, and the empty
\* list is the output for some input.
C12_EmptyListPossible ==
    recommendations.kind = "return" =>
        /\ Len(recommendations.value) <= 10
        /\ \E r \in Rows, a \in AnomalyStatuses, rl \in RiskLevels :
               generate_recommendations(r, a, rl) = <<>>

\* C12 (amended): the list has between 2 and 10 entries; the risk-level block
\* always contributes two messages, so no input yields the empty list.
C12_LengthBetweenTwoAndTen ==
    recommendations.kind = "return" =>
        /\ Len(recommendations.value) >= 2
        /\ Len(recommendations.value) <= 10

\* the shortest output: nothing fired but the risk-level block
C12_Witness ==
    /\ recommendations.kind = "return"
    /\ Len(recommendations.value) = 2
    /\ risk_level = "High Risk"
    /\ recommendations.value = <<MSG_HIGH_RISK, MSG_HIGH_RISK_EMERGENCY>>


\* The physical domain of a channel
InDomain(ch, v) ==
    CASE ch = "heart_rate" -> 0 <= v /\ v <= MaxHeartRate
      [] ch = "blood_oxygen" -> 0 <= v /\ v <= 100
      [] ch = "temperature" -> MinTemperature <= v /\ v <= MaxTemperature

\* How a record lacks a channel: the key is absent, or its value is None or NaN
MissingHow(r, ch) ==
    IF ch \notin DOMAIN r THEN "absent"
    ELSE IF r[ch] = None THEN "None"
    ELSE IF r[ch] = NaN THEN "NaN"
    ELSE "present"

InvalidRecord(r) ==
    \E ch \in Channels :
        \/ MissingHow(r, ch) # "present"
        \/ ~InDomain(ch, r[ch])

\* C13: calculate_health_score, create_risk_labels and
\* generate_recommendations fail fast on invalid input: a record with a
\* missing or non-numeric channel, or a value outside its physical domain,
\* ends the call in an error, never in a result.
C13_FailFastOnInvalidInput ==
    InvalidRecord(row) =>
        /\ health_score.kind \in {"none", "raise"}
        /\ risk_labels.kind \in {"none", "raise"}
        /\ recommendations.kind \in {"none", "raise"}

\* The record r lacking channel ch in the given way
MakeMissing(r, ch, how) ==
    CASE how = "absent" -> Without(r, ch)
      [] how = "None" -> [r EXCEPT ![ch] = None]
      [] how = "NaN" -> [r EXCEPT ![ch] = NaN]

SeverePenalty(ch) ==
    CASE ch = "heart_rate" -> 25
      [] ch = "blood_oxygen" -> 30
      [] ch = "temperature" -> 20

TablePenalty(ch, v) ==
    CASE ch = "heart_rate" -> TableHeartRatePenalty(v)
      [] ch = "blood_oxygen" -> TableBloodOxygenPenalty(v)
      [] ch = "temperature" -> TableTemperaturePenalty(v)

PenaltyOfPresent(r, ch) ==
    IF MissingHow(r, ch) = "present" THEN TablePenalty(ch, r[ch]) ELSE 0

\* C14: when a record lacks one channel, calculate_health_score either
\* raises, or returns the score in which that channel carries exactly its
\* severe penalty (25 heart rate, 30 blood oxygen, 20 temperature) and the
\* other channels their table penalty; and whether it raises or penalises
\* is the same whichever of the three channels is the one missing.
C14_MissingChannelRejectedOrSevere ==
    \A ch \in Channels :
        (health_score.kind # "none" /\ MissingHow(row, ch) # "present") =>
            /\ \/ health_score.kind = "raise"
               \/ /\ health_score.kind = "return"
                  /\ health_score.value =
                         100 - SeverePenalty(ch)
                             - PenaltyOfPresent(row, "heart_rate")
                             - PenaltyOfPresent(row, "blood_oxygen")
                             - PenaltyOfPresent(row, "temperature")
            /\ \A other \in Channels, r \in SimulatedRows :
                   call_calculate_health_score(
                       MakeMissing(r, other, MissingHow(row, ch))).kind
                       = health_score.kind

\* a reading whose temperature is NaN, scored with the severe temperature
\* penalty of 20 on top of the penalties of the measured channels
C14_Witness ==
    /\ MissingHow(row, "temperature") = "NaN"
    /\ row.heart_rate = 45
    /\ health_score.kind = "return"
    /\ health_score.value = 100 - 25 - 30 - 20


\* C15: the three core functions are side-effect free: a call leaves the
\* record (and the frame) it was given unchanged and modifies no shared
\* state (the store, the training flag, the shared models, the generator).
C15_NoSideEffects ==
    [][/\ row' = row
       /\ frame' = frame
       /\ UNCHANGED appVars]_vars

\* all three functions were called on a record without heart_rate:
\* generate_recommendations used its default 0 and the record still has no
\* such key, so the two functions that subscript it raised
C15_Witness ==
    /\ "heart_rate" \notin DOMAIN row
    /\ frame = <<row>>
    /\ recommendations.kind = "return"
    /\ recommendations.value[1] = MSG_HR_LOW
    /\ health_score = Raised("KeyError")
    /\ risk_labels = Raised("KeyError")
    /\ ~model_trained


\* The result set of an analysis
ResultSet == {"health_score", "anomaly_status", "risk_level", "recommendations"}

\* C16: an analyze, realtime or dashboard request ends in one response that
\* is either a success (status 200, success = true) carrying the complete
\* result set (health score, anomaly status, risk level, recommendations)
\* and no error, or a failure (status 400 or 500, success = false) carrying
\* nothing but the error message.
C16_NoPartialResults ==
    (response.kind = "response"
        /\ response.op \in {"analyze", "realtime", "dashboard"}) =>
        \/ /\ response.status = 200
           /\ response.body.success
           /\ ResultSet \subseteq DOMAIN response.body
           /\ "error" \notin DOMAIN response.body
        \/ /\ response.status \in {400, 500}
           /\ ~response.body.success
           /\ DOMAIN response.body = {"success", "error"}

\* a dashboard request whose analysis raised on the stored, empty frame:
\* the models were initialised by the request, and the answer is the error
C16_Witness ==
    /\ response.kind = "response"
    /\ response.op = "dashboard"
    /\ response.status = 500
    /\ response.body = Failure("KeyError")
    /\ user_data_store[response.user_id] = <<>>
    /\ model_trained

NoDataResponse(r) ==
    \/ r.status = 404
    \/ r.status = 400 /\ r.body.error = "No data provided or found for user"

\* C17: once a simulate request for a user succeeded, the user stays in
\* user_data_store, and no later analyze (without inline data), history,
\* statistics, export or dashboard request for that user is answered with
\* the 'no data' error (404, or 400 'No data provided or found for user').
C17_SimulatedUserHasData ==
    /\ simulated \subseteq DOMAIN user_data_store
    /\ (response.kind = "response"
           /\ response.op \in {"analyze", "history", "statistics", "export",
                               "dashboard"}
           /\ response.user_id \in simulated)
          => ~NoDataResponse(response)

\* both users were simulated, one after the other, and the history of the
\* first is still served
C17_Witness ==
    /\ simulated = Users
    /\ response.kind = "response"
    /\ response.op = "history"
    /\ response.status = 200
    /\ response.body.num_records = 1


\* the request answered by response' is for a user without an entry
UnknownUser(ops) ==
    /\ response'.kind = "response"
    /\ response'.op \in ops
    /\ response'.user_id \notin DOMAIN user_data_store

NotFound(r) == r.status = 404 /\ ~r.body.success

NoDataProvided(r) ==
    /\ r.status = 400
    /\ r.body = Failure("No data provided or found for user")

\* C18 as stated: for a user with no entry in user_data_store, history,
\* statistics and export return 404 with success = false, analyze without
\* a 'data' field returns 400 'No data provided or found for user', and
\* user_data_store is left unchanged.
C18_UnknownUserAlways400 ==
    [][/\ UnknownUser({"history", "statistics", "export"}) =>
              NotFound(response') /\ UNCHANGED user_data_store
       /\ (UnknownUser({"analyze"}) /\ ~response'.has_data) =>
              NoDataProvided(response') /\ UNCHANGED user_data_store]_vars

\* C18: for a user with no entry in user_data_store, history, statistics
\* and export return 404 with success = false; analyze without a 'data'
\* field returns 400 'No data provided or found for user' when the models
\* are trained at the end of the request, and 500 with success = false when
\* its initialize_models call raised; in all four cases user_data_store is
\* left unchanged.
C18_UnknownUserRejected ==
    [][/\ UnknownUser({"history", "statistics", "export"}) =>
              NotFound(response') /\ UNCHANGED user_data_store
       /\ (UnknownUser({"analyze"}) /\ ~response'.has_data) =>
              /\ IF model_trained' THEN NoDataProvided(response')
                 ELSE /\ response'.status = 500
                      /\ ~response'.body.success
              /\ UNCHANGED user_data_store]_vars

\* an analyze request without data for an unknown user was refused with 400
\* while another user has data, and the store has no entry for the user
C18_Witness ==
    /\ response.kind = "response"
    /\ response.op = "analyze"
    /\ ~response.has_data
    /\ NoDataProvided(response)
    /\ DOMAIN user_data_store = Users \ {response.user_id}

ModelInfo(r) == r.kind = "response" /\ r.op = "model-info"

\* a request that initialises the models on demand was answered with success
Served(r) ==
    /\ r.kind = "response"
    /\ \/ r.op \in {"analyze", "realtime", "dashboard"} /\ r.status = 200
       \/ /\ r.op = "stream"
          /\ r.body.events[Len(r.body.events)].type = "complete"

\* model-info answers by model_trained alone and initialises nothing, and
\* a successful analyze, realtime, dashboard or stream request leaves
\* model_trained true, for good
ModelInfoFollowsModelTrained ==
    /\ ModelInfo(response') =>
          /\ IF model_trained
             THEN response'.status = 200 /\ response'.body.success
             ELSE /\ response'.status = 400
                  /\ response'.body = Failure("Models not initialized")
          /\ UNCHANGED <<model_trained, preprocessor, anomaly_detector,
                         risk_classifier, rng_state>>
    /\ Served(response') => model_trained'
    /\ model_trained => model_trained'

\* C19 as stated: model-info returns 400 'Models not initialized' exactly
\* while model_trained is false and success once it is true, never
\* initialises the models, succeeds after a successful analyze, realtime,
\* dashboard or stream request, and fails when it is requested before all
\* of them.
C19_ModelInfoFailsBeforeAnalysis ==
    [][/\ ModelInfoFollowsModelTrained
       /\ (ModelInfo(response') /\ response = NotCalled) =>
              response'.status = 400]_vars

\* C19: model-info returns 400 'Models not initialized' exactly while
\* model_trained is false and success once it is true, never initialises
\* the models, and succeeds after a successful analyze, realtime, dashboard
\* or stream request; requested before all of them it fails unless the
\* models were initialised when the process started.
C19_ModelInfoFollowsModelTrained ==
    [][/\ ModelInfoFollowsModelTrained
       /\ (ModelInfo(response') /\ response = NotCalled) =>
              response'.status = IF model_trained THEN 200 ELSE 400]_vars

\* model-info succeeded with the store still empty and no user simulated:
\* the models were initialised by a request or at start-up
C19_Witness ==
    /\ ModelInfo(response)
    /\ response.status = 200
    /\ model_trained
    /\ simulated = {}

EventTypes(events) == [i \in DOMAIN events |-> events[i].type]

\* C20: when the Gemini advisor is available, a dashboard stream that got
\* to its metrics event emits one metrics event, one ai_start event, one
\* ai_chunk event per chunk of the advisor's
\* generate_comprehensive_insights_stream, then ai_complete, then complete.
C20_StreamOrder ==
    (/\ response.kind = "response"
     /\ response.op = "stream"
     /\ gemini_advisor.available
     /\ response.body.events[1].type = "metrics") =>
        LET types == EventTypes(response.body.events)
            n == Len(types)
        IN  /\ n >= 4
            /\ types[2] = "ai_start"
            /\ \A i \in 3..(n - 2) : types[i] = "ai_chunk"
            /\ types[n - 1] = "ai_complete"
            /\ types[n] = "complete"


\* C21: generate_comprehensive_insights never raises to its caller: when
\* the Gemini request fails, or the reply cannot be parsed or lacks a
\* required key, it returns a dictionary with a 'recommendations' list.
C21_AdvisorNeverRaises ==
    /\ gemini_insights.kind # "raise"
    /\ gemini_insights.kind = "return" =>
          "recommendations" \in DOMAIN gemini_insights.value

RequiredKeys == {"summary", "key_findings", "recommendations"}

\* the advisor was built and its call in this request returned insights
AdvisorAnswered ==
    /\ gemini_advisor.available
    /\ gemini_insights.kind = "return"

\* C22: in analyze, realtime and dashboard responses using_ai is true only
\* if the advisor was built at startup and its call in this request
\* returned insights with summary, key_findings and recommendations; in
\* every other case a request whose analysis got to its latest record
\* succeeds with using_ai = false, no ai_insights field, and the
\* recommendations of generate_recommendations for the latest record with
\* its anomaly status and risk level.
C22_UsingAiOnlyWithInsights ==
    (response.kind = "response"
        /\ response.op \in {"analyze", "realtime", "dashboard"}) =>
        /\ latest_record.kind = "return" <=> response.status = 200
        /\ response.status = 200 =>
              IF response.body.using_ai
              THEN /\ AdvisorAnswered
                   /\ RequiredKeys \subseteq DOMAIN gemini_insights.value
              ELSE /\ ~AdvisorAnswered
                   /\ "ai_insights" \notin DOMAIN response.body
                   /\ response.body.recommendations =
                          generate_recommendations(latest_record.value,
                                                   response.body.anomaly_status,
                                                   response.body.risk_level)

\* the advisor was built, its call in a realtime request raised, and the
\* request was answered with the rules' recommendations
C22_Witness ==
    /\ response.kind = "response"
    /\ response.op = "realtime"
    /\ response.status = 200
    /\ gemini_advisor.available
    /\ gemini_insights.kind = "raise"
    /\ ~response.body.using_ai
    /\ Len(response.body.recommendations) > 2


\* the positions of the events of the given types
Positions(types, wanted) == {i \in DOMAIN types : types[i] \in wanted}

\* C23: every dashboard stream ends with exactly one terminal event, its
\* last one: 'complete' when the analysis got to its latest record, 'error'
\* otherwise; a failure of the Gemini call, a missing advisor method
\* included, gives 'fallback' followed by 'complete'; and a stream ending
\* in 'complete' has exactly one 'metrics' event, before exactly one
\* 'ai_complete' or 'fallback' event.
C23_StreamEndsOnce ==
    (response.kind = "response" /\ response.op = "stream") =>
        LET types == EventTypes(response.body.events)
            n == Len(types)
            closing == Positions(types, {"ai_complete", "fallback"})
        IN  /\ n >= 1
            /\ Positions(types, {"complete", "error"}) = {n}
            /\ types[n] = "complete" <=> latest_record.kind = "return"
            /\ (/\ latest_record.kind = "return"
                /\ gemini_advisor.available
                /\ getattr(gemini_advisor,
                           "generate_comprehensive_insights_stream").kind
                       = "raise") =>
                   /\ n >= 2
                   /\ types[n - 1] = "fallback"
                   /\ types[n] = "complete"
            /\ types[n] = "complete" =>
                   /\ Positions(types, {"metrics"}) = {1}
                   /\ Cardinality(closing) = 1
                   /\ \A i \in closing : i > 1

\* a stream of a built advisor that lacks the streaming method
C23_Witness ==
    /\ response.kind = "response"
    /\ response.op = "stream"
    /\ gemini_advisor.available
    /\ EventTypes(response.body.events)
           = <<"metrics", "ai_start", "fallback", "complete">>


\* the analysis of the request worked on the frame df
AnalysisOf(df, r, latest) ==
    latest.kind = "return" =>
        /\ df # <<>>
        /\ latest.value = df[Len(df)]
        /\ r.op = "dashboard" => r.body.total_records = Len(df)
        /\ r.op = "stream" => r.body.events[1].total_records = Len(df)

\* C24: a dashboard or stream request for a user with no stored data
\* generates exactly 100 records, stores them under that user id and
\* analyses them; for a user with stored data it analyses the stored
\* records and leaves user_data_store unchanged; when the initialisation
\* of the models fails nothing is stored.
C24_DashboardStoresOnce ==
    [][(response'.kind = "response" /\ response'.op \in {"dashboard", "stream"}) =>
          LET u == response'.user_id
          IN  IF ~model_trained'
              THEN UNCHANGED user_data_store /\ latest_record' = NotCalled
              ELSE IF u \notin DOMAIN user_data_store
              THEN /\ DOMAIN user_data_store' = DOMAIN user_data_store \cup {u}
                   /\ Len(user_data_store'[u]) = 100
                   /\ \A v \in DOMAIN user_data_store :
                          user_data_store'[v] = user_data_store[v]
                   /\ latest_record'.kind = "return"
                   /\ AnalysisOf(user_data_store'[u], response', latest_record')
              ELSE /\ UNCHANGED user_data_store
                   /\ AnalysisOf(user_data_store[u], response', latest_record')
      ]_vars

\* a dashboard request was answered from 100 records stored for its user
\* while the other user has a frame of a simulate request
C24_Witness ==
    /\ response.kind = "response"
    /\ response.op = "dashboard"
    /\ response.status = 200
    /\ response.body.total_records = 100
    /\ Len(user_data_store[response.user_id]) = 100
    /\ simulated = Users \ {response.user_id}


ReadOnlyOps ==
    {"analyze", "realtime", "history", "statistics", "export", "model-info"}

\* C25: only simulate, dashboard and stream write user_data_store: analyze
\* (also with inline data), realtime, history, statistics, export and
\* model-info leave it as it is, and a stored frame changes only when a
\* simulate request for its user replaces it; an export returns the frame
\* that was stored.
C25_StoredDataImmutable ==
    [][/\ (response'.kind = "response" /\ response'.op \in ReadOnlyOps) =>
              UNCHANGED user_data_store
       /\ \A u \in DOMAIN user_data_store :
              /\ u \in DOMAIN user_data_store'
              /\ user_data_store'[u] # user_data_store[u] =>
                     response'.op = "simulate" /\ response'.user_id = u
       /\ (response'.kind = "response" /\ response'.op = "export"
              /\ response'.status = 200) =>
              response'.body.csv = user_data_store'[response'.user_id]
      ]_vars

\* an analyze request with inline data was answered for a user whose stored
\* frame holds another record than the one analysed
C25_Witness ==
    /\ response.kind = "response"
    /\ response.op = "analyze"
    /\ response.has_data
    /\ response.status = 200
    /\ response.user_id \in DOMAIN user_data_store
    /\ user_data_store[response.user_id] = <<NormalReading>>
    /\ latest_record = Returned(AnomalousReading)


AllFitted ==
    /\ preprocessor.is_fitted
    /\ anomaly_detector.is_fitted
    /\ risk_classifier.is_fitted

\* the request was refused because a model is not there or not fitted
NotFitted(r) ==
    /\ r.kind = "response"
    /\ "error" \in DOMAIN r.body
    /\ r.body.error \in {"ValueError", "initialize_models"}

\* C26: model_trained = true implies that the preprocessor, the anomaly
\* detector and the risk classifier are all fitted, also after a load in
\* which some files load and a later one fails; a request that finds
\* model_trained = true is never refused for a model that is not fitted;
\* and model_trained never goes from true back to false.
C26_TrainedImpliesFitted ==
    [][/\ model_trained' => AllFitted'
       /\ model_trained => model_trained' /\ ~NotFitted(response')]_vars

\* a realtime request was answered by models trained after a failed load,
\* in a process that has stored no frame
C26_Witness ==
    /\ model_trained
    /\ AllFitted
    /\ response.kind = "response"
    /\ response.op = "realtime"
    /\ response.status = 200
    /\ rng_state # 0
    /\ user_data_store = <<>>


InitOps == {"analyze", "realtime", "dashboard", "stream"}

\* the answer to a request whose initialize_models call raised
InitError(r) ==
    \/ r = Exited
    \/ /\ r.kind = "response"
       /\ IF r.op = "stream"
          THEN EventTypes(r.body.events) = <<"error">>
          ELSE r.status \in {400, 500} /\ ~r.body.success

\* C27: initialize_models is called only while model_trained is false and
\* sets it to true exactly when all three artefacts loaded or, after a load
\* failure, the training completed, whether or not the trained models could
\* be saved; otherwise it raises, model_trained stays false and the request
\* is answered with an error; and every analyze, realtime, dashboard or
\* stream request that finds model_trained false calls it again.
C27_TrainedIffLoadedOrTrained ==
    [][/\ initialisation'.kind = "return" =>
              /\ ~model_trained /\ model_trained'
              /\ \/ initialisation'.value.loaded = 3
                 \/ initialisation'.value.fitted = 4
       /\ initialisation'.kind = "raise" =>
              /\ ~model_trained /\ ~model_trained'
              /\ initialisation'.error.loaded < 3
              /\ initialisation'.error.fitted < 4
              /\ InitError(response')
       /\ (response'.kind = "response" /\ response'.op \in InitOps
              /\ ~model_trained) => initialisation'.kind # "none"
       /\ initialisation'.kind = "none" => UNCHANGED model_trained]_vars

\* two artefacts loaded, the training completed, the save failed, and the
\* dashboard request was answered
C27_Witness ==
    /\ initialisation
           = Returned([loaded |-> 2, fitted |-> 4, saved |-> FALSE])
    /\ model_trained
    /\ response.kind = "response"
    /\ response.op = "dashboard"
    /\ response.status = 200


\* the first and the last position of a frame of n records within the date
\* filter of a request; the positions within it are those from one to the
\* other
FirstWithin(args) == IF args.start_date = None THEN 1 ELSE max(1, args.start_date)
LastWithin(n, args) == IF args.end_date = None THEN n ELSE min(n, args.end_date)

BothReturned == health_score.kind = "return" /\ risk_labels.kind = "return"

\* C29: on the same numeric record the score and the rule-based label
\* agree: a score of 100 implies the label Low; the label High implies a
\* score of at most 55; the label Low implies a score of at least 75; and
\* the score is never below 25, the sum of the penalties before the clamp
\* included, so the clamp at 0 never decides.
C29_ScoreAndLabelConsistent ==
    BothReturned =>
        LET score == health_score.value
            label == risk_levels[risk_labels.value[1] + 1]
        IN  /\ score = 100 => label = "Low Risk"
            /\ label = "High Risk" => score <= 55
            /\ label = "Low Risk" => score >= 75
            /\ score >= 25
            /\ temperature_scoring(
                   blood_oxygen_scoring(heart_rate_scoring(100, row), row),
                   row) = score

\* a blood oxygen of 94 and a temperature of 37.4: one risk point and the
\* label Low, twenty-five points off the score
C29_Witness ==
    /\ BothReturned
    /\ row.heart_rate = 60
    /\ row.blood_oxygen = 94
    /\ row.temperature = 374
    /\ risk_labels.value = <<0>>
    /\ health_score.value = 75

\* C30: under any interleaving of analyze, realtime, dashboard and stream
\* requests, the initialisation of the models runs at most once after it
\* has first succeeded: no request replaces or fits a shared object once
\* model_trained is set, and none is within initialize_models() while
\* another request that observed model_trained = True is transforming.
C30_InitialisationAtMostOnce ==
    \A t \in Threads :
        threads[t] # Idle =>
            /\ ~threads[t].late
            /\ Initialising(t) =>
                   \A u \in Threads \ {t} :
                       ~(/\ threads[u] # Idle
                         /\ threads[u].pc = "transforming"
                         /\ threads[u].observed)

============================================================================
